---- MODULE Spec2Model ----
(***************************************************************************)
(* Recommendation pipeline of the amazon-recommender repository:           *)
(* Recall -> Ranking -> Re-ranking, with the Redis realtime context as     *)
(* short-term memory.                                                      *)
(*                                                                         *)
(* Scores are fixed-point integers.  A rank_score is a probability in      *)
(* hundredths (90 stands for 0.90).  Every re-ranking rule multiplies by a *)
(* percentage that is a multiple of 5%, so a multiplier is carried in      *)
(* twentieths (Scaled(120) = 24 of Unit = 20); a rule that does not apply  *)
(* multiplies by Unit, so that after each of the four rule stages all      *)
(* items share the same denominator and scores compare exactly.            *)
(***************************************************************************)
EXTENDS Integers, Sequences, FiniteSets, TLC

\* ---------------------------------------------------------------------
\* Bounds of the model
\* ---------------------------------------------------------------------
MaxItems == 3
MaxRecent == 2
MaxWindow == 4
\* Recall caps (100, 50 and 50 in the deployed pipeline), scaled to the
\* five-item catalogue.
MfTopK == 4
PopularityTopK == 3
ContentTopK == 3

\* longest candidate list of one source in the merge scenarios
MaxSourceLen == 2

\* longest candidate list in the ranking scenarios
MaxCandidates == 3

\* most rows of a factor matrix, most entries of an id mapping, and most
\* requests in the loader scenarios
MaxRows == 2
MaxRequests == 2

\* most training triples, number of epochs (50 in the deployed training),
\* and most training runs, in the training scenarios
MaxTriples == 3
Epochs == 2
MaxRuns == 2

\* most events received, and the length recent_items is trimmed to (20 in
\* the deployed service), in the event-ingestion scenarios
MaxEvents == 3
RecentItemsLimit == 2

\* ---------------------------------------------------------------------
\* Program constants (re-ranking rules)
\* ---------------------------------------------------------------------
Percent == 100
Unit == Percent \div 5
IntentStepPct == 5
IntentCapPct == 20
RecentPenaltyPct == 70
DiversityPenaltyPct == 85
PopularityFloorPct == 90
DiversityThresholdPct == 40
MinRatingThreshold == 5
DefaultTopN == 20

\* ---------------------------------------------------------------------
\* Program constants (event ingestion)
\* ---------------------------------------------------------------------
\* EventLoggingService.log_interaction(db, log, max_retries=3)
MaxRetries == 3

\* ---------------------------------------------------------------------
\* Items
\* ---------------------------------------------------------------------
NoCategory == "null"
Categories == {"Electronics", "Fashion", "Home"}

NoRating == -1

\* The items table: main_category (may be null), rating_number, and
\* avg_rating in tenths (may be null).
Catalog ==
  [i \in 1..5 |->
     CASE i = 1 -> [category |-> "Electronics", rating_number |-> 4,   avg_rating |-> 20]
       [] i = 2 -> [category |-> "Electronics", rating_number |-> 5,   avg_rating |-> 40]
       [] i = 3 -> [category |-> "Fashion",     rating_number |-> 120, avg_rating |-> 50]
       [] i = 4 -> [category |-> "Home",        rating_number |-> 4,   avg_rating |-> NoRating]
       [] i = 5 -> [category |-> NoCategory,    rating_number |-> 120, avg_rating |-> 30]]

\* item_popularity: normalized popularity score, in hundredths
Popularity == [i \in 1..5 |-> 100 - 10 * i]

\* dot(user_factors[u], item_factors[i]) of the user of the factor table,
\* in hundredths
MfScore ==
  [i \in 1..5 |-> CASE i = 1 -> -20 [] i = 2 -> 10 [] i = 3 -> 40
                     [] i = 4 -> 80  [] i = 5 -> 60]

\* items that have an embedding in item_embeddings
Embedded == {1, 2, 3, 5}

\* cosine similarity of the item embedding with the query vector built
\* from the user's reference items, in hundredths
Similarity ==
  [i \in 1..5 |-> CASE i = 1 -> 30 [] i = 2 -> 95 [] i = 3 -> 20
                     [] i = 4 -> 0   [] i = 5 -> 70]

ItemIds == DOMAIN Catalog

\* rank_score values the ranking layer hands over (hundredths).
ScoreSet == {80, 90}

\* Item ids that may sit in a user's recent_items list.
RecentPool == {1, 2}

\* interaction counts stored in the recent_categories hash
CountSet == {2, 5}

VARIABLES
  universe,      \* the items of the loaded artifacts
  user,          \* the requesting user: anonymous, in the factor table, with reference items
  weights,       \* the trained ranking model: feature weights and intercept
  fails,         \* the recall sources that fail at request time
  candidates,    \* the merged candidate set
  ranked,        \* input of rerank_items: the RankedItem list
  store,         \* Redis content for the user: recent_items, recent_categories
  redisUp,       \* whether the Redis connection works
  top_n,         \* ReRankingService(top_n=...)
  floorEnabled,  \* whether the optional popularity floor rule is on
  pc,            \* "ready" before rerank_items, "done" after, "failed" if it raised
  ctx,           \* the context rerank_items worked with
  scored,        \* the items after the four rules, before the final sort
  out,           \* the ReRankedItem list returned
  sourceLists,         \* recall merge: the candidate list of each source
  merged,        \* recall merge: the order the sources were merged in, and the result
  remerged,      \* recall merge: the result merged with the same sources again
  mergePc,       \* recall merge: "ready", "merged", "remerged" ("idle" when not exercised)
  supplied,      \* ranking: the candidates in the order they are supplied in
  rankings,      \* ranking: the ranked list of each run so far
  files,         \* artifacts: the artifact files present under backend/artifacts/
  shape,         \* artifacts: rows of the factor matrices, lengths of the id mappings, feature order of model_metadata.json
  loaded,        \* artifacts: whether the artifacts are loaded
  raised,        \* artifacts: the error the last load raised, "none" if none
  requests,      \* artifacts: number of recommendation requests received
  served,        \* artifacts: the score computed for each request served
  triples,       \* training: the (user_id, item_id, rating) training triples
  table,         \* training: the trained factor table (matrices, biases, id mappings)
  trainPc,       \* training: "ready", "trained", "failed" ("idle" when not exercised)
  random_state,  \* training: the hyperparameter random_state
  rng,           \* training: state of the process's random generator
  runs,          \* training: what each training run so far produced
  health,        \* context read: "up", "down" or "hung" Redis ("unused" when not exercised)
  attempts,      \* context read: number of reads of the context issued by the request
  outcome,       \* context read: "answered", "error" or "timeout" ("none" before)
  events,        \* event ingestion: number of POST /api/event requests received
  event,         \* event ingestion: the event the handler is working on
  eventPc,       \* event ingestion: "waiting", "received", "updated", "responded" ("idle" when not exercised)
  redis,         \* event ingestion: the user's Redis keys recent_items, recent_categories, last_active
  contextWrite,  \* event ingestion: update_realtime_context for the event: "none" yet, "written", "failed"
  responses,     \* event ingestion: the HTTP status returned for each event
  tasks,         \* event ingestion: the background task of each event: state and inserts tried
  interaction_logs, \* event ingestion: the rows of the PostgreSQL table interaction_logs
  logLines,      \* event ingestion: the warnings and errors logged
  returned,      \* concurrent recall: the candidates of each source that has returned
  arrival,       \* concurrent recall: the sources in the order they returned in
  merges,        \* concurrent recall: number of merges performed for the request
  mounted,       \* AuthProvider: the mount effect has run
  authUser,      \* AuthProvider: the state user (Nobody for null)
  authLoading,   \* AuthProvider: the state loading
  access_token,  \* AuthProvider: localStorage access_token (Nobody when absent)
  storedUser,    \* AuthProvider: localStorage user (Nobody when absent)
  route,         \* AuthProvider: the last route pushed to the router
  inflight,      \* AuthProvider: the API calls awaiting their response
  issued,        \* AuthProvider: number of API calls made
  homeUser,      \* Home: the value of user the page was last rendered with
  recommendations, \* Home: the state recommendations
  homeLoading,   \* Home: the state loading
  homeError,     \* Home: the state error ("null" for none)
  metrics,       \* Home: the state metrics
  metricsLoading, \* Home: the state metricsLoading
  pending,       \* Home: the requests awaiting their response
  sent,          \* Home: number of times the effect has run
  cart,          \* CartPage: the quantity of each item of the cart
  updating,      \* CartPage: the state updating ("null" for null)
  operations,    \* CartPage: the cart operations awaiting their response
  cartCalls,     \* CartPage: every call made to updateCartItem and removeFromCart
  started,       \* CartPage: number of cart operations started
  productUser,   \* ProductDetailPage: the value of user the page is rendered with
  addingToCart,  \* ProductDetailPage: the state addingToCart
  pressed,       \* ProductDetailPage: the user of each press of a button, in order
  pushes,        \* ProductDetailPage: the router.push calls made, by press
  addToCartCalls, \* ProductDetailPage: the addToCart call of a press and how it ended
  logged,        \* ProductDetailPage: the api.logEvent calls made, by press
  awaitingLog,   \* ProductDetailPage: the presses awaiting the answer of logEvent
  dashboardLoading, \* DashboardPage: the state loading
  dataStates,    \* DashboardPage: the eight data states, by the request that fills them
  promises,      \* DashboardPage: the state of the promise of each analytics request
  fetchPc        \* DashboardPage: fetchData is "unmounted", "awaiting" or "done" ("idle" when not exercised)

requestVars ==
  <<universe, user, weights, fails, candidates, ranked, store, redisUp, top_n,
    floorEnabled, pc, ctx, scored, out>>

mergeVars == <<sourceLists, merged, remerged, mergePc>>

rankVars == <<supplied, rankings>>

loaderVars == <<files, shape, loaded, raised, requests, served>>

trainVars == <<triples, table, trainPc, random_state, rng, runs>>

readVars == <<health, attempts, outcome>>

eventVars ==
  <<events, event, eventPc, redis, contextWrite, responses, tasks,
    interaction_logs, logLines>>

recallVars == <<returned, arrival, merges>>

authVars == <<mounted, authUser, authLoading, access_token, storedUser, route, inflight, issued>>

homeVars == <<homeUser, recommendations, homeLoading, homeError, metrics, metricsLoading, pending, sent>>

cartVars == <<cart, updating, operations, cartCalls, started>>

productVars == <<productUser, addingToCart, pressed, pushes, addToCartCalls, logged, awaitingLog>>

dashboardVars == <<dashboardLoading, dataStates, promises, fetchPc>>

vars ==
  <<requestVars, mergeVars, rankVars, loaderVars, trainVars, readVars,
    eventVars, recallVars, authVars, homeVars, cartVars, productVars,
    dashboardVars>>

\* ---------------------------------------------------------------------
\* The parts of the system a specification does not exercise stay idle
\* ---------------------------------------------------------------------
NoMerge ==
  /\ sourceLists = <<>>
  /\ merged = [order |-> <<>>, items |-> <<>>]
  /\ remerged = <<>>
  /\ mergePc = "idle"

NoRank == supplied = <<>> /\ rankings = <<>>

NoLoader ==
  /\ files = {} /\ shape = <<>> /\ loaded = FALSE
  /\ raised = "none" /\ requests = 0 /\ served = <<>>

NoTable ==
  [user_factors |-> <<>>, item_factors |-> <<>>, user_bias |-> <<>>,
   item_bias |-> <<>>, user2idx |-> <<>>, item2idx |-> <<>>]

NoTraining ==
  /\ triples = <<>> /\ table = NoTable /\ trainPc = "idle"
  /\ random_state = 0 /\ rng = 0 /\ runs = <<>>

NoRead == health = "unused" /\ attempts = 0 /\ outcome = "none"

NoRedis == [recent_items |-> <<>>, recent_categories |-> <<>>, last_active |-> 0]

NoEvent == [asin |-> 0, category |-> NoCategory]

NoEvents ==
  /\ events = 0 /\ event = NoEvent /\ eventPc = "idle"
  /\ redis = NoRedis /\ contextWrite = "none" /\ responses = <<>>
  /\ tasks = <<>> /\ interaction_logs = {} /\ logLines = {}

NoRecall ==
  /\ returned = <<>>
  /\ arrival = <<>>
  /\ merges = 0

NoAuth ==
  /\ mounted = FALSE
  /\ authUser = 0
  /\ authLoading = FALSE
  /\ access_token = 0
  /\ storedUser = 0
  /\ route = "unused"
  /\ inflight = {}
  /\ issued = 0

NoHome ==
  /\ homeUser = 0
  /\ recommendations = <<>>
  /\ homeLoading = FALSE
  /\ homeError = "null"
  /\ metrics = "null"
  /\ metricsLoading = FALSE
  /\ pending = {}
  /\ sent = 0

NoCart ==
  /\ cart = <<>>
  /\ updating = "null"
  /\ operations = {}
  /\ cartCalls = {}
  /\ started = 0

NoProduct ==
  /\ productUser = 0
  /\ addingToCart = FALSE
  /\ pressed = <<>>
  /\ pushes = {}
  /\ addToCartCalls = <<>>
  /\ logged = {}
  /\ awaitingLog = {}

NoDashboard ==
  /\ dashboardLoading = FALSE
  /\ dataStates = <<>>
  /\ promises = <<>>
  /\ fetchPc = "idle"

OnlyRequest ==
  NoMerge /\ NoRank /\ NoLoader /\ NoTraining /\ NoRead /\ NoEvents
    /\ NoRecall
    /\ NoAuth
    /\ NoHome
    /\ NoCart
    /\ NoProduct
    /\ NoDashboard

otherThanRecall == <<requestVars, mergeVars, rankVars, loaderVars, trainVars, readVars, eventVars, authVars, homeVars, cartVars, productVars, dashboardVars>>

otherThanAuth == <<requestVars, mergeVars, rankVars, loaderVars, trainVars, readVars, eventVars, recallVars, homeVars, cartVars, productVars, dashboardVars>>

otherThanRequestAndRecall == <<mergeVars, rankVars, loaderVars, trainVars, readVars, eventVars, authVars, homeVars, cartVars, productVars, dashboardVars>>

otherThanHome == <<requestVars, mergeVars, rankVars, loaderVars, trainVars, readVars, eventVars, recallVars, authVars, cartVars, productVars, dashboardVars>>

otherThanCart == <<requestVars, mergeVars, rankVars, loaderVars, trainVars, readVars, eventVars, recallVars, authVars, homeVars, productVars, dashboardVars>>

otherThanProduct == <<requestVars, mergeVars, rankVars, loaderVars, trainVars, readVars, eventVars, recallVars, authVars, homeVars, cartVars, dashboardVars>>

otherThanDashboard == <<requestVars, mergeVars, rankVars, loaderVars, trainVars, readVars, eventVars, recallVars, authVars, homeVars, cartVars, productVars>>

otherThanRequest == <<mergeVars, rankVars, loaderVars, trainVars, readVars, eventVars, recallVars, authVars, homeVars, cartVars, productVars, dashboardVars>>

otherThanMerge == <<requestVars, rankVars, loaderVars, trainVars, readVars, eventVars, recallVars, authVars, homeVars, cartVars, productVars, dashboardVars>>

otherThanRank == <<requestVars, mergeVars, loaderVars, trainVars, readVars, eventVars, recallVars, authVars, homeVars, cartVars, productVars, dashboardVars>>

otherThanLoader == <<requestVars, mergeVars, rankVars, trainVars, readVars, eventVars, recallVars, authVars, homeVars, cartVars, productVars, dashboardVars>>

otherThanTraining == <<requestVars, mergeVars, rankVars, loaderVars, readVars, eventVars, recallVars, authVars, homeVars, cartVars, productVars, dashboardVars>>

otherThanRead == <<mergeVars, rankVars, loaderVars, trainVars, eventVars, recallVars, authVars, homeVars, cartVars, productVars, dashboardVars>>

otherThanEvents == <<requestVars, mergeVars, rankVars, loaderVars, trainVars, readVars, recallVars, authVars, homeVars, cartVars, productVars, dashboardVars>>

\* ---------------------------------------------------------------------
\* Helpers
\* ---------------------------------------------------------------------
Min(a, b) == IF a < b THEN a ELSE b

Range(s) == {s[i] : i \in 1..Len(s)}

SeqsUpTo(S, n) == UNION {[1..k -> S] : k \in 0..n}

Injective(s) == \A i, j \in 1..Len(s) : s[i] = s[j] => i = j

\* the function f as an explicit table (evaluated once)
Materialized(f) == f @@ <<>>

NonIncreasing(s) == \A i \in 1..(Len(s) - 1) : s[i] >= s[i + 1]

\* RankedItem of the ranking layer
RankedItem(id, score, pos) ==
  [item_id |-> id, rank_score |-> score, rank_position |-> pos,
   category |-> Catalog[id].category,
   rating_number |-> Catalog[id].rating_number]

\* Every list the ranking layer can hand over: distinct items, sorted by
\* rank_score descending, rank_position 1..n.
RankedLists(maxLen) ==
  {[k \in 1..Len(p[1]) |-> RankedItem(p[1][k], p[2][k], k)] :
     p \in {q \in SeqsUpTo(ItemIds, maxLen) \X SeqsUpTo(ScoreSet, maxLen) :
              /\ Len(q[1]) = Len(q[2])
              /\ Injective(q[1])
              /\ NonIncreasing(q[2])}}

\* Categories the user may have interacted with lately.
ContextCategories == {"Electronics", "Fashion"}

\* recent_categories hashes: category -> interaction_count
CategoryMaps ==
  UNION {[D -> CountSet] :
           D \in {S \in SUBSET ContextCategories : Cardinality(S) <= 1}}

EmptyContext == [recent_items |-> <<>>, recent_categories |-> <<>>]

Contexts ==
  [recent_items : SeqsUpTo(RecentPool, MaxRecent),
   recent_categories : CategoryMaps]

\* ---------------------------------------------------------------------
\* Recall layer
\* ---------------------------------------------------------------------
Sources == {"mf", "popularity", "content"}

Users ==
  {u \in [anonymous : BOOLEAN, inFactorTable : BOOLEAN, hasReferences : BOOLEAN] :
     u.anonymous => ~u.inFactorTable /\ ~u.hasReferences}

\* The k items of S with the highest score
TopK(S, score, k) ==
  {i \in S : Cardinality({j \in S : score[j] > score[i]}) < k}

\* (variant: an unknown user gets the most popular items from this source)
CollaborativeRecall_Fallback(u, items) ==
  IF u.inFactorTable THEN TopK(items, MfScore, MfTopK)
  ELSE TopK(items, Popularity, MfTopK)

\* MF recall: top-K by dot product; nothing for a user outside the factor table
CollaborativeRecall(u, items) ==
  IF u.inFactorTable THEN TopK(items, MfScore, MfTopK) ELSE {}

\* (variant: the K least popular items)
PopularityRecall_Ascending(items) ==
  TopK(items, [i \in ItemIds |-> 0 - Popularity[i]], PopularityTopK)

\* Popularity recall: global top-K by popularity score
PopularityRecall(items) ==
  TopK(items, Popularity, PopularityTopK)

\* Content recall: top-K by cosine similarity with the user's reference
\* items; nothing for a user without reference items
ContentRecall(u, items) ==
  IF u.hasReferences THEN TopK(items \cap Embedded, Similarity, ContentTopK) ELSE {}

\* (variant: the failure of a source leaves the request)
Isolate_Propagate(failed, found) == [raised |-> failed, items |-> found]

\* A failing source is logged and counts as having found nothing.
Isolate(failed, found) ==
  [raised |-> FALSE, items |-> IF failed THEN {} ELSE found]

\* the ids of a set as a list, in id order
ListOf(S) ==
  [k \in 1..Cardinality(S) |->
     CHOOSE i \in S : Cardinality({j \in S : j < i}) = k - 1]

\* all candidates of the sources, one list after the other
RECURSIVE Concat(_)
Concat(lists) ==
  IF lists = <<>> THEN <<>> ELSE Head(lists) \o Concat(Tail(lists))

\* (variant: only a duplicate that directly follows its original is removed)
Dedup_Adjacent(s) ==
  LET keep == {k \in 1..Len(s) : k = 1 \/ s[k - 1] # s[k]}
  IN  [n \in 1..Cardinality(keep) |->
         s[CHOOSE k \in keep : Cardinality({j \in keep : j < k}) = n - 1]]

\* Remove duplicates: every id stays at its first occurrence
Dedup(s) ==
  LET keep == {k \in 1..Len(s) : \A j \in 1..(k - 1) : s[j] # s[k]}
  IN  [n \in 1..Cardinality(keep) |->
         s[CHOOSE k \in keep : Cardinality({j \in keep : j < k}) = n - 1]]

\* Union of the candidates of the sources, duplicates removed
MergeLists(lists) == Dedup(Concat(lists))

\* (variant: the first source that found anything is the candidate set)
Merge_FirstFound(mf, pop, content) ==
  IF mf # {} THEN mf ELSE IF pop # {} THEN pop ELSE content

\* Merge & dedup: union of the three sources
Merge(mf, pop, content) ==
  Range(MergeLists(<<ListOf(mf), ListOf(pop), ListOf(content)>>))

\* ---------------------------------------------------------------------
\* Ranking layer
\* ---------------------------------------------------------------------
FeatureNames == {"mf_score", "popularity_score", "rating_score", "content_score"}

Clamp(x, lo, hi) == IF x < lo THEN lo ELSE IF x > hi THEN hi ELSE x

\* The four features of a candidate, in hundredths
Features(u, i) ==
  [mf_score |-> IF u.inFactorTable THEN MfScore[i] ELSE 0,
   popularity_score |-> Popularity[i],
   rating_score |->
     IF Catalog[i].avg_rating = NoRating THEN 0
     ELSE Clamp(((Catalog[i].avg_rating - 10) * 100) \div 40, 0, 100),
   content_score |->
     IF u.hasReferences /\ i \in Embedded THEN Similarity[i] ELSE 0]

\* Min-max normalization of each feature across the candidate batch:
\* raw is the feature table of the batch, item -> feature -> value
Normalized(raw) ==
  LET batch == DOMAIN raw
      lo == Materialized([f \in FeatureNames |->
               CHOOSE v \in {raw[j][f] : j \in batch} :
                 \A j \in batch : v <= raw[j][f]])
      hi == Materialized([f \in FeatureNames |->
               CHOOSE v \in {raw[j][f] : j \in batch} :
                 \A j \in batch : v >= raw[j][f]])
  IN  [i \in batch |->
         Materialized([f \in FeatureNames |->
            IF hi[f] = lo[f] THEN 0
            ELSE ((raw[i][f] - lo[f]) * 100) \div (hi[f] - lo[f])])]

\* w.x + b, in hundredths
Logit(w, x) ==
  w.intercept
    + w.mf_score * x.mf_score
    + w.popularity_score * x.popularity_score
    + w.rating_score * x.rating_score
    + w.content_score * x.content_score

SigmoidTable ==
  <<50, 56, 62, 68, 73, 78, 82, 85, 88, 90, 92, 94, 95, 96, 97, 98, 98, 99>>

\* 1 / (1 + exp(-z)) in hundredths, z in hundredths, tabulated in steps of
\* 0.25 up to 4.25
Sigmoid(z) ==
  LET Half(x) == SigmoidTable[Min(x \div 25, Len(SigmoidTable) - 1) + 1]
  IN  IF z >= 0 THEN Half(z) ELSE 100 - Half(0 - z)

\* Equal probabilities are ordered by item id.
RankTieBreak(a, b) == a.item_id < b.item_id

\* (variant: a stable sort on the probability alone, equal probabilities
\* stay in the order the candidates were supplied in)
RankBefore_Supplied(a, b) ==
  \/ a.score > b.score
  \/ (a.score = b.score /\ a.at < b.at)

\* Sort: descending by probability
RankBefore(a, b) ==
  \/ a.score > b.score
  \/ (a.score = b.score /\ RankTieBreak(a, b))

\* Ranking of a candidate list: the features of each candidate, normalized
\* across the batch, the probability of the logistic model (rank_score, in
\* hundredths), the sort
RankList(u, list, w) ==
  LET batch == Range(list)
      x == Normalized(Materialized([i \in batch |-> Features(u, i)]))
      e == Materialized([k \in 1..Len(list) |->
             [item_id |-> list[k],
              score |-> Sigmoid(Logit(w, x[list[k]])),
              at |-> k]])
      Place(k) == 1 + Cardinality({j \in 1..Len(list) : RankBefore(e[j], e[k])})
  IN  [n \in 1..Len(list) |->
         LET k == CHOOSE j \in 1..Len(list) : Place(j) = n
         IN  RankedItem(e[k].item_id, e[k].score, n)]

\* Ranking of the merged candidate set
Rank(u, batch, w) == RankList(u, ListOf(batch), w)

\* ---------------------------------------------------------------------
\* Redis context (get_recent_items / get_recent_categories)
\* ---------------------------------------------------------------------
\* (variant: the connection error leaves the call)
LoadContext_Raises(st, up) == [raised |-> ~up, context |-> st]

\* Falls back to the empty list / dict when Redis cannot be reached; never
\* raises.  raised = TRUE stands for an exception leaving the call.
LoadContext(st, up) ==
  [raised |-> FALSE, context |-> IF up THEN st ELSE EmptyContext]

\* ---------------------------------------------------------------------
\* Rules
\* ---------------------------------------------------------------------
\* a percentage as a multiplier in twentieths
Scaled(pct) == (pct * Unit) \div Percent

\* trail entry, e.g. intent_boost(+20%), recent_penalty(-30%)
Entry(rule, pct) == [rule |-> rule, pct |-> pct]

Apply(item, mult, rule) ==
  [item EXCEPT !.adjusted_score = @ * Scaled(mult),
               !.applied_rules = Append(@, Entry(rule, mult - Percent))]

Skip(item) == [item EXCEPT !.adjusted_score = @ * Unit]

\* adjusted_score starts from rank_score
Start(r) ==
  [item_id |-> r.item_id, rank_score |-> r.rank_score,
   adjusted_score |-> r.rank_score, rank_position |-> r.rank_position,
   applied_rules |-> <<>>, category |-> r.category,
   rating_number |-> r.rating_number]

\* (variant: the boost is not capped)
IntentMultiplier_Uncapped(count) == Percent + IntentStepPct * count

\* Rule 1: adjusted_score *= (1 + min(0.2, 0.05 * interaction_count))
IntentMultiplier(count) == Percent + Min(IntentCapPct, IntentStepPct * count)

IntentBoost(item, c) ==
  IF item.category \in DOMAIN c.recent_categories
  THEN Apply(item, IntentMultiplier(c.recent_categories[item.category]),
             "intent_boost")
  ELSE Skip(item)

\* (variant: the penalty is taken for every occurrence in the list)
RecentPenalty_PerOccurrence(item, c) ==
  LET occ == Cardinality({i \in 1..Len(c.recent_items) :
                            c.recent_items[i] = item.item_id})
      once == Apply(item, RecentPenaltyPct, "recent_penalty")
  IN  IF occ = 0 THEN Skip(item)
      ELSE IF occ = 1 THEN once
      ELSE Apply(once, RecentPenaltyPct, "recent_penalty")

\* Rule 2: adjusted_score *= 0.7 for an item in recent_items
RecentPenalty(item, c) ==
  IF item.item_id \in Range(c.recent_items)
  THEN Apply(item, RecentPenaltyPct, "recent_penalty")
  ELSE Skip(item)

\* Among equal adjusted scores the earlier original rank comes first.
TieBreak(a, b) == a.rank_position < b.rank_position

\* (variant: ascending order)
Before_Ascending(a, b) ==
  \/ a.adjusted_score < b.adjusted_score
  \/ /\ a.adjusted_score = b.adjusted_score
     /\ TieBreak(a, b)

\* Order of the sorted list: adjusted_score descending.
Before(a, b) ==
  \/ a.adjusted_score > b.adjusted_score
  \/ /\ a.adjusted_score = b.adjusted_score
     /\ TieBreak(a, b)

SortByAdjusted(items) ==
  LET n == Len(items)
      Place(i) == 1 + Cardinality({j \in 1..n : Before(items[j], items[i])})
  IN  [k \in 1..n |-> items[CHOOSE i \in 1..n : Place(i) = k]]

TopN(items, n) == SubSeq(items, 1, Min(n, Len(items)))

\* (variant: the 25% threshold of the system overview)
OverRepresented_Quarter(window) ==
  {c \in Categories :
     Cardinality({i \in 1..Len(window) : window[i].category = c}) * Percent
       > 25 * Len(window)}

\* Rule 3: the categories holding more than 40% of the current top-N window
OverRepresented(window) ==
  {c \in Categories :
     Cardinality({i \in 1..Len(window) : window[i].category = c}) * Percent
       > DiversityThresholdPct * Len(window)}

\* (variant: the over-represented items of the window are dropped)
DiversityPenalty_Filter(items, n) ==
  LET window == TopN(SortByAdjusted(items), n)
      over == OverRepresented(window)
      inWindow == {window[i].item_id : i \in 1..Len(window)}
      Keep(it) == ~(it.item_id \in inWindow /\ it.category \in over)
      Pass(it) == Skip(it)
      kept == SelectSeq(items, Keep)
  IN  [k \in 1..Len(kept) |-> Pass(kept[k])]

DiversityPenalty(items, n) ==
  LET window == TopN(SortByAdjusted(items), n)
      over == OverRepresented(window)
      inWindow == {window[i].item_id : i \in 1..Len(window)}
  IN  [k \in 1..Len(items) |->
         IF items[k].item_id \in inWindow /\ items[k].category \in over
         THEN Apply(items[k], DiversityPenaltyPct, "diversity_penalty")
         ELSE Skip(items[k])]

\* (variant: the threshold itself is penalised too)
PopularityFloor_Inclusive(item, enabled) ==
  IF enabled /\ item.rating_number <= MinRatingThreshold
  THEN Apply(item, PopularityFloorPct, "popularity_floor")
  ELSE Skip(item)

\* Rule 4 (optional): adjusted_score *= 0.9 when rating_number < threshold
PopularityFloor(item, enabled) ==
  IF enabled /\ item.rating_number < MinRatingThreshold
  THEN Apply(item, PopularityFloorPct, "popularity_floor")
  ELSE Skip(item)

\* The four rules in their order, on the whole list
\* (variant: the popularity floor is applied first)
ApplyRules_FloorFirst(items, c, n, enabled) ==
  LET s2 == [k \in 1..Len(items) |->
               RecentPenalty(IntentBoost(PopularityFloor(Start(items[k]), enabled), c), c)]
  IN  DiversityPenalty(s2, n)

ApplyRules(items, c, n, enabled) ==
  LET s2 == [k \in 1..Len(items) |->
               RecentPenalty(IntentBoost(Start(items[k]), c), c)]
      s3 == DiversityPenalty(s2, n)
  IN  [k \in 1..Len(s3) |-> PopularityFloor(s3[k], enabled)]

\* (variant: positions counted from 0)
Renumber_ZeroBased(items) ==
  [k \in 1..Len(items) |-> [items[k] EXCEPT !.rank_position = k - 1]]

\* rank_position of the output is the 1-based place in the returned list
Renumber(items) ==
  [k \in 1..Len(items) |-> [items[k] EXCEPT !.rank_position = k]]

Finalize(items, n) == Renumber(TopN(SortByAdjusted(items), n))

\* ---------------------------------------------------------------------
\* ReRankingService.rerank_items
\* ---------------------------------------------------------------------
\* rerank_items called on its own: no recall or ranking state
NoUser == [anonymous |-> TRUE, inFactorTable |-> FALSE, hasReferences |-> FALSE]

NoWeights ==
  [mf_score |-> 0, popularity_score |-> 0, rating_score |-> 0,
   content_score |-> 0, intercept |-> 0]

NoPipeline ==
  /\ universe = ItemIds
  /\ user = NoUser
  /\ weights = NoWeights
  /\ fails = {}
  /\ candidates = {}

RerankInit ==
  /\ ranked \in RankedLists(MaxItems)
  /\ store \in Contexts
  /\ redisUp \in BOOLEAN
  /\ top_n \in 2..MaxItems
  /\ floorEnabled \in BOOLEAN
  /\ pc = "ready"
  /\ ctx = EmptyContext
  /\ scored = <<>>
  /\ out = <<>>
  /\ NoPipeline
  /\ OnlyRequest

Rerank ==
  /\ pc = "ready"
  /\ LET r == LoadContext(store, redisUp)
         s == ApplyRules(ranked, r.context, top_n, floorEnabled)
     IN  IF r.raised
         THEN /\ pc' = "failed"
              /\ UNCHANGED <<ctx, scored, out>>
         ELSE /\ pc' = "done"
              /\ ctx' = r.context
              /\ scored' = s
              /\ out' = Finalize(s, top_n)
  /\ UNCHANGED <<universe, user, weights, fails, candidates>>
  /\ UNCHANGED <<ranked, store, redisUp, top_n, floorEnabled>>
  /\ UNCHANGED otherThanRequest

RerankNext == Rerank

RerankSpec == RerankInit /\ [][RerankNext]_vars

\* Requests with longer lists and top_n >= 3, with at most one recent item
\* in Redis: the windows in which the diversity rule has three categories
\* to choose from.
DiversityInit ==
  /\ ranked \in RankedLists(MaxWindow)
  /\ store \in [recent_items : SeqsUpTo(RecentPool, 1),
                recent_categories : CategoryMaps]
  /\ redisUp = TRUE
  /\ top_n \in 3..MaxWindow
  /\ floorEnabled \in BOOLEAN
  /\ pc = "ready"
  /\ ctx = EmptyContext
  /\ scored = <<>>
  /\ out = <<>>
  /\ NoPipeline
  /\ OnlyRequest

DiversityNext == Rerank

DiversitySpec == DiversityInit /\ [][DiversityNext]_vars

\* ---------------------------------------------------------------------
\* The recommendation request: Recall -> Ranking -> Re-ranking
\* ---------------------------------------------------------------------
\* Trained ranking models: all four features; popularity only; factors,
\* ratings and content without popularity.
WeightSet ==
  {[mf_score |-> 1, popularity_score |-> 1, rating_score |-> 1,
    content_score |-> 1, intercept |-> 0],
   [mf_score |-> 0, popularity_score |-> 2, rating_score |-> 0,
    content_score |-> 0, intercept |-> -100],
   [mf_score |-> 2, popularity_score |-> 0, rating_score |-> 1,
    content_score |-> 1, intercept |-> 0]}

\* Redis content of a user in the request scenarios
RequestContexts ==
  [recent_items : {<<>>, <<2>>},
   recent_categories : {c \in CategoryMaps :
                          \A k \in DOMAIN c : k = "Electronics" /\ c[k] = 5}]

PipelineInit ==
  /\ universe \in SUBSET ItemIds
  /\ user \in Users
  /\ weights \in WeightSet
  /\ fails \in SUBSET Sources
  /\ store \in RequestContexts
  /\ (user.anonymous => store = EmptyContext)
  /\ redisUp \in BOOLEAN
  /\ top_n \in 2..PopularityTopK
  /\ floorEnabled \in BOOLEAN
  /\ pc = "ready"
  /\ candidates = {}
  /\ ranked = <<>>
  /\ ctx = EmptyContext
  /\ scored = <<>>
  /\ out = <<>>
  /\ OnlyRequest

Recommend ==
  /\ pc = "ready"
  /\ LET mf == Isolate("mf" \in fails, CollaborativeRecall(user, universe))
         pop == Isolate("popularity" \in fails, PopularityRecall(universe))
         content == Isolate("content" \in fails, ContentRecall(user, universe))
         cands == Merge(mf.items, pop.items, content.items)
         rk == Rank(user, cands, weights)
         r == LoadContext(store, redisUp)
         s == ApplyRules(rk, r.context, top_n, floorEnabled)
     IN  IF mf.raised \/ pop.raised \/ content.raised \/ r.raised
         THEN /\ pc' = "failed"
              /\ UNCHANGED <<candidates, ranked, ctx, scored, out>>
         ELSE /\ pc' = "done"
              /\ candidates' = cands
              /\ ranked' = rk
              /\ ctx' = r.context
              /\ scored' = s
              /\ out' = Finalize(s, top_n)
  /\ UNCHANGED <<universe, user, weights, fails, store, redisUp, top_n, floorEnabled>>
  /\ UNCHANGED otherThanRequest

PipelineNext == Recommend

PipelineSpec == PipelineInit /\ [][PipelineNext]_vars

\* ---------------------------------------------------------------------
\* Recall with the three sources running concurrently
\* ---------------------------------------------------------------------

\* what a source hands back for the request
RecallOf(src) ==
  IF src = "mf" THEN Isolate("mf" \in fails, CollaborativeRecall(user, universe)).items
  ELSE IF src = "popularity"
       THEN Isolate("popularity" \in fails, PopularityRecall(universe)).items
       ELSE Isolate("content" \in fails, ContentRecall(user, universe)).items

\* (variant: the merge starts as soon as one source has returned)
AllReturned_First(done) == done # {}

\* the merge waits for every source
AllReturned(done) == done = Sources

ConcurrentRecallInit ==
  /\ universe \in SUBSET ItemIds
  /\ user \in Users
  /\ weights \in WeightSet
  /\ fails \in SUBSET Sources
  /\ store = EmptyContext
  /\ redisUp = TRUE
  /\ top_n = DefaultTopN
  /\ floorEnabled = FALSE
  /\ pc = "recall"
  /\ candidates = {}
  /\ ranked = <<>>
  /\ ctx = EmptyContext
  /\ scored = <<>>
  /\ out = <<>>
  /\ returned = <<>>
  /\ arrival = <<>>
  /\ merges = 0
  /\ NoMerge /\ NoRank /\ NoLoader /\ NoTraining /\ NoRead /\ NoEvents
  /\ NoAuth
  /\ NoHome
  /\ NoCart
  /\ NoProduct
  /\ NoDashboard

\* one of the sources finishes; the sources finish in any order
SourceReturns(src) ==
  /\ pc = "recall"
  /\ src \notin DOMAIN returned
  /\ returned' = returned @@ (src :> RecallOf(src))
  /\ arrival' = Append(arrival, src)
  /\ UNCHANGED merges
  /\ UNCHANGED requestVars
  /\ UNCHANGED otherThanRequestAndRecall

\* the results are merged in the order they came in, and the request goes
\* on through ranking and re-ranking
MergeReturned ==
  /\ pc = "recall"
  /\ AllReturned(DOMAIN returned)
  /\ LET lists == [k \in 1..Len(arrival) |-> ListOf(returned[arrival[k]])]
         cands == Range(MergeLists(lists))
         rk == Rank(user, cands, weights)
         r == LoadContext(store, redisUp)
         s == ApplyRules(rk, r.context, top_n, floorEnabled)
     IN  /\ pc' = "done"
         /\ merges' = merges + 1
         /\ candidates' = cands
         /\ ranked' = rk
         /\ ctx' = r.context
         /\ scored' = s
         /\ out' = Finalize(s, top_n)
  /\ UNCHANGED <<universe, user, weights, fails, store, redisUp, top_n, floorEnabled>>
  /\ UNCHANGED <<returned, arrival>>
  /\ UNCHANGED otherThanRequestAndRecall

ConcurrentRecallNext ==
  \/ \E src \in Sources : SourceReturns(src)
  \/ MergeReturned

ConcurrentRecallSpec == ConcurrentRecallInit /\ [][ConcurrentRecallNext]_vars

\* ---------------------------------------------------------------------
\* Recall merge on its own: three source lists, merged in some order, and
\* the result merged with the same sources once more
\* ---------------------------------------------------------------------
SourcePool == {1, 2, 3}

SourceLists == {s \in SeqsUpTo(SourcePool, MaxSourceLen) : Injective(s)}

\* the six orders of the three sources
Orders == {p \in [1..3 -> Sources] : Injective(p)}

NoRequest ==
  /\ NoPipeline
  /\ ranked = <<>> /\ store = EmptyContext /\ redisUp = TRUE
  /\ top_n = DefaultTopN /\ floorEnabled = FALSE
  /\ pc = "ready" /\ ctx = EmptyContext /\ scored = <<>> /\ out = <<>>

MergeInit ==
  /\ sourceLists \in [Sources -> SourceLists]
  /\ merged = [order |-> <<>>, items |-> <<>>]
  /\ remerged = <<>>
  /\ mergePc = "ready"
  /\ NoRequest
  /\ NoRank
  /\ NoLoader
  /\ NoTraining
  /\ NoRead
  /\ NoEvents
  /\ NoRecall
  /\ NoAuth
  /\ NoHome
  /\ NoCart
  /\ NoProduct
  /\ NoDashboard

MergeSources ==
  /\ mergePc = "ready"
  /\ mergePc' = "merged"
  /\ \E p \in Orders :
       merged' = [order |-> p,
                  items |-> MergeLists([k \in 1..3 |-> sourceLists[p[k]]])]
  /\ UNCHANGED <<sourceLists, remerged>>
  /\ UNCHANGED otherThanMerge

MergeAgain ==
  /\ mergePc = "merged"
  /\ mergePc' = "remerged"
  /\ remerged' = MergeLists(<<merged.items>> \o [k \in 1..3 |-> sourceLists[merged.order[k]]])
  /\ UNCHANGED <<sourceLists, merged>>
  /\ UNCHANGED otherThanMerge

MergeNext == MergeSources \/ MergeAgain

MergeSpec == MergeInit /\ [][MergeNext]_vars

\* ---------------------------------------------------------------------
\* Ranking on its own: a candidate list is ranked, then the same candidates
\* are supplied again, in any order, and ranked with the same model
\* ---------------------------------------------------------------------
\* the orders a candidate set can be supplied in
Arrangements(S) == {p \in [1..Cardinality(S) -> S] : Injective(p)}

RankInit ==
  /\ supplied \in {c \in SeqsUpTo(ItemIds, MaxCandidates) : Injective(c)}
  /\ rankings = <<>>
  /\ user \in Users
  /\ weights \in WeightSet
  /\ universe = ItemIds /\ fails = {} /\ candidates = {}
  /\ ranked = <<>> /\ store = EmptyContext /\ redisUp = TRUE
  /\ top_n = DefaultTopN /\ floorEnabled = FALSE
  /\ pc = "ready" /\ ctx = EmptyContext /\ scored = <<>> /\ out = <<>>
  /\ NoMerge
  /\ NoLoader
  /\ NoTraining
  /\ NoRead
  /\ NoEvents
  /\ NoRecall
  /\ NoAuth
  /\ NoHome
  /\ NoCart
  /\ NoProduct
  /\ NoDashboard

RankCandidates ==
  /\ rankings = <<>>
  /\ rankings' = <<RankList(user, supplied, weights)>>
  /\ UNCHANGED supplied
  /\ UNCHANGED otherThanRank

RankAgain ==
  /\ Len(rankings) = 1
  /\ \E again \in Arrangements(Range(supplied)) :
       /\ supplied' = again
       /\ rankings' = Append(rankings, RankList(user, again, weights))
  /\ UNCHANGED otherThanRank

RankNext == RankCandidates \/ RankAgain

RankSpec == RankInit /\ [][RankNext]_vars

\* ---------------------------------------------------------------------
\* Artifacts and their loader
\* ---------------------------------------------------------------------
MfFiles ==
  {"user_factors.npy", "item_factors.npy", "user_bias.npy", "item_bias.npy",
   "user2idx.json", "item2idx.json", "global_mean.json"}

RankingFiles == {"ranking_model.pkl", "model_metadata.json"}

EmbeddingFiles == {"item_embeddings.npy", "item_ids.json"}

PopularityFiles == {"item_popularity.parquet"}

RequiredFiles == MfFiles \cup RankingFiles \cup EmbeddingFiles \cup PopularityFiles

\* Feature vector [mf_score, popularity_score, rating_score, content_score]
FeatureOrder == <<"mf_score", "popularity_score", "rating_score", "content_score">>

\* the feature orders a model_metadata.json may name
Manifests == {m \in [1..4 -> FeatureNames] : Injective(m)}

\* (variant: only the matrices are looked for)
MissingFiles_MatricesOnly(present) ==
  {f \in RequiredFiles \ present :
     f \in {"user_factors.npy", "item_factors.npy", "item_embeddings.npy"}}

\* the required files that are not there
MissingFiles(present) == RequiredFiles \ present

\* matrix row count = mapping length, for both factor matrices
Consistent(sh) ==
  /\ sh.user_rows = sh.user_ids
  /\ sh.item_rows = sh.item_ids

\* the feature-order manifest of the model is the order used at inference
ManifestOk(sh) == sh.manifest = FeatureOrder

\* Loading: FileNotFoundError for an absent file; an inconsistent factor
\* table or a foreign feature order is rejected
Load(present, sh) ==
  IF MissingFiles(present) # {} THEN "FileNotFoundError"
  ELSE IF ~Consistent(sh) THEN "MissingArtifactError"
  ELSE IF ~ManifestOk(sh) THEN "MissingArtifactError"
  ELSE "none"

\* the coefficients of ranking_model.pkl, in the order of the manifest
Coefficients(w, manifest) == [k \in 1..4 |-> w[manifest[k]]]

\* (variant: the vector is built from the feature dict in key order)
FeatureVector_KeyOrder(x) ==
  <<x.content_score, x.mf_score, x.popularity_score, x.rating_score>>

\* the feature vector of a candidate, in the order of FeatureOrder
FeatureVector(x) == [k \in 1..4 |-> x[FeatureOrder[k]]]

\* w.x + b on the vectors
Predict(coef, intercept, vec) ==
  intercept + coef[1] * vec[1] + coef[2] * vec[2] + coef[3] * vec[3] + coef[4] * vec[4]

\* the user of the loader scenarios: in the factor table, with references
KnownUser == [anonymous |-> FALSE, inFactorTable |-> TRUE, hasReferences |-> TRUE]

LoaderInit ==
  /\ files \in {RequiredFiles} \cup {RequiredFiles \ {f} : f \in RequiredFiles}
  /\ shape \in [user_rows : 1..MaxRows, user_ids : 1..MaxRows,
                item_rows : 1..MaxRows, item_ids : 1..MaxRows,
                manifest : Manifests]
  /\ loaded = FALSE
  /\ raised = "none"
  /\ requests = 0
  /\ served = <<>>
  /\ weights \in WeightSet
  /\ user = KnownUser
  /\ universe = ItemIds /\ fails = {} /\ candidates = {}
  /\ ranked = <<>> /\ store = EmptyContext /\ redisUp = TRUE
  /\ top_n = DefaultTopN /\ floorEnabled = FALSE
  /\ pc = "ready" /\ ctx = EmptyContext /\ scored = <<>> /\ out = <<>>
  /\ NoMerge
  /\ NoRank
  /\ NoTraining
  /\ NoRead
  /\ NoEvents
  /\ NoRecall
  /\ NoAuth
  /\ NoHome
  /\ NoCart
  /\ NoProduct
  /\ NoDashboard

\* A recommendation request.  Artifacts are loaded lazily: the first
\* request that finds them not loaded loads them, and fails with the
\* loader's error if the load fails.
Request ==
  /\ requests < MaxRequests
  /\ requests' = requests + 1
  /\ LET error == IF loaded THEN "none" ELSE Load(files, shape)
     IN  IF error # "none"
         THEN /\ raised' = error
              /\ UNCHANGED <<loaded, served>>
         ELSE /\ loaded' = TRUE
              /\ raised' = "none"
              /\ \E i \in ItemIds :
                   LET x == Features(user, i)
                   IN  served' = Append(served,
                         [item_id |-> i,
                          rank_logit |-> Predict(Coefficients(weights, shape.manifest),
                                                 weights.intercept, FeatureVector(x)),
                          trained_logit |-> Logit(weights, x)])
  /\ UNCHANGED <<files, shape>>
  /\ UNCHANGED otherThanLoader

LoaderNext == Request

LoaderSpec == LoaderInit /\ [][LoaderNext]_vars

\* ---------------------------------------------------------------------
\* Matrix factorization training and its output artifacts
\* ---------------------------------------------------------------------
TrainUsers == {"u1", "u2", "u3"}

TrainItems == {1, 2}

\* ratings of the training data: one inside the scale 1..5, one below it
\* and one above
TrainRatings == {0, 5, 6}

TrainingData ==
  SeqsUpTo([user_id : TrainUsers, item_id : TrainItems, rating : TrainRatings],
           MaxTriples)

\* the distinct ids of a column of the training data, by first appearance
DistinctIds(column) == Dedup(column)

\* (variant: an id gets the position of the triple it first appears in)
IndexOf_TriplePosition(column) ==
  [id \in Range(column) |->
     (CHOOSE k \in 1..Len(column) :
        column[k] = id /\ \A j \in 1..(k - 1) : column[j] # id) - 1]

\* user2idx.json / item2idx.json: id -> row index, from 0
IndexOf(column) ==
  LET ids == DistinctIds(column)
  IN  [id \in Range(ids) |-> (CHOOSE k \in 1..Len(ids) : ids[k] = id) - 1]

\* The random generator (a linear congruential one stands for numpy's):
\* its states, the state a seed puts it in, and a draw.
Modulus == 65537

\* (variant: the generator is left in the state the process has it in)
Reseed_Unseeded(seed, state) == state

\* random_state: the generator is seeded at the start of a training run
Reseed(seed, state) == seed % Modulus

NextRandom(state) == (state * 75 + 74) % Modulus

\* Parameters are fixed-point numbers in thousandths; the model has one
\* latent dimension.  Initial factor of each row: a draw scaled into
\* -0.100 .. 0.100 (normal distribution with scale 0.1/sqrt(k)).
RECURSIVE InitFactors(_, _)
InitFactors(n, state) ==
  IF n = 0
  THEN [values |-> <<>>, state |-> state]
  ELSE LET rest == InitFactors(n - 1, state)
           drawn == NextRandom(rest.state)
       IN  [values |-> Append(rest.values, (drawn % 201) - 100), state |-> drawn]

\* Shuffle of the triples' positions (Fisher-Yates, from the last position
\* down): position i is swapped with a drawn position in 1..i
RECURSIVE ShuffleFrom(_, _, _)
ShuffleFrom(order, i, state) ==
  IF i < 2
  THEN [order |-> order, state |-> state]
  ELSE LET drawn == NextRandom(state)
           j == 1 + (drawn % i)
           swapped == [order EXCEPT ![i] = order[j], ![j] = order[i]]
       IN  ShuffleFrom(swapped, i - 1, drawn)

Shuffle(n, state) == ShuffleFrom([k \in 1..n |-> k], n, state)

\* global_mean.json, in thousandths
RECURSIVE SumRatings(_, _)
SumRatings(data, k) == IF k = 0 THEN 0 ELSE data[k].rating + SumRatings(data, k - 1)

GlobalMean(data) == (1000 * SumRatings(data, Len(data))) \div Len(data)

\* One SGD update, for the triple of user row u and item row i:
\*   error = rating - prediction
\*   b_u += lr * (error - reg_user * b_u);  b_i += lr * (error - reg_item * b_i)
\*   p_u += lr * (error * q_i - reg_user * p_u)
\*   q_i += lr * (error * p_u - reg_item * q_i)
\* with lr = 0.01 and reg_user = reg_item = 0.1
SgdUpdate(m, u, i, rating) ==
  LET prediction == m.mean + m.user_bias[u] + m.item_bias[i]
                      + ((m.user_factors[u] * m.item_factors[i]) \div 1000)
      error == 1000 * rating - prediction
      b_u == m.user_bias[u] + ((error - (m.user_bias[u] \div 10)) \div 100)
      b_i == m.item_bias[i] + ((error - (m.item_bias[i] \div 10)) \div 100)
      p_u == m.user_factors[u]
               + ((((error * m.item_factors[i]) \div 1000) - (m.user_factors[u] \div 10)) \div 100)
      q_i == m.item_factors[i]
               + ((((error * p_u) \div 1000) - (m.item_factors[i] \div 10)) \div 100)
  IN  [m EXCEPT !.user_bias[u] = b_u, !.item_bias[i] = b_i,
                !.user_factors[u] = p_u, !.item_factors[i] = q_i]

\* the updates of one epoch, in the shuffled order, from its k-th triple on
RECURSIVE SgdEpoch(_, _, _, _)
SgdEpoch(m, data, order, k) ==
  IF k > Len(order)
  THEN m
  ELSE LET t == data[order[k]]
       IN  SgdEpoch(SgdUpdate(m, m.user2idx[t.user_id] + 1, m.item2idx[t.item_id] + 1, t.rating),
                    data, order, k + 1)

\* the epochs still to run: each shuffles the training data, then updates
RECURSIVE SgdEpochs(_, _, _)
SgdEpochs(m, data, left) ==
  IF left = 0
  THEN m
  ELSE LET sh == Shuffle(Len(data), m.state)
           shuffled == [m EXCEPT !.state = sh.state,
                                 !.shuffles = Append(m.shuffles, sh.order)]
       IN  SgdEpochs(SgdEpoch(shuffled, data, sh.order, 1), data, left - 1)

\* A training run from the generator state it starts in: initialization
\* (biases 0, factors drawn), then the epochs
Fit(data, state) ==
  LET users == [k \in 1..Len(data) |-> data[k].user_id]
      items == [k \in 1..Len(data) |-> data[k].item_id]
      n_users == Len(DistinctIds(users))
      n_items == Len(DistinctIds(items))
      p == InitFactors(n_users, state)
      q == InitFactors(n_items, p.state)
  IN  SgdEpochs([mean |-> GlobalMean(data),
                 user_factors |-> p.values,
                 item_factors |-> q.values,
                 user_bias |-> [r \in 1..n_users |-> 0],
                 item_bias |-> [r \in 1..n_items |-> 0],
                 user2idx |-> IndexOf(users),
                 item2idx |-> IndexOf(items),
                 shuffles |-> <<>>,
                 state |-> q.state],
                data, Epochs)

\* a rating outside the scale, or fewer than 2 distinct users or items
TrainingDataError(data) ==
  \/ \E k \in 1..Len(data) : data[k].rating < 1 \/ data[k].rating > 5
  \/ Cardinality({data[k].user_id : k \in 1..Len(data)}) < 2
  \/ Cardinality({data[k].item_id : k \in 1..Len(data)}) < 2

RandomStates == {42, 7}

TrainInit ==
  /\ triples \in TrainingData
  /\ random_state \in RandomStates
  /\ rng = 1
  /\ table = NoTable
  /\ runs = <<>>
  /\ trainPc = "ready"
  /\ NoRequest
  /\ NoMerge
  /\ NoRank
  /\ NoLoader
  /\ NoRead
  /\ NoEvents
  /\ NoRecall
  /\ NoAuth
  /\ NoHome
  /\ NoCart
  /\ NoProduct
  /\ NoDashboard

\* (variant: the training data is not validated)
Train_Unchecked ==
  /\ trainPc \in {"ready", "trained"}
  /\ Len(runs) < MaxRuns
  /\ triples # <<>>
  /\ LET m == Fit(triples, Reseed(random_state, rng))
     IN  /\ trainPc' = "trained"
         /\ table' = [user_factors |-> m.user_factors,
                      item_factors |-> m.item_factors,
                      user_bias |-> m.user_bias,
                      item_bias |-> m.item_bias,
                      user2idx |-> m.user2idx,
                      item2idx |-> m.item2idx]
         /\ runs' = Append(runs, [table |-> table', shuffles |-> m.shuffles])
         /\ rng' = m.state
  /\ UNCHANGED <<triples, random_state>>
  /\ UNCHANGED otherThanTraining

\* One run of the training script on the training data (it can be run
\* again on the same data): validation, then the fit and its artifacts
Train ==
  /\ trainPc \in {"ready", "trained"}
  /\ Len(runs) < MaxRuns
  /\ IF TrainingDataError(triples)
     THEN /\ trainPc' = "failed"
          /\ UNCHANGED <<table, runs, rng>>
     ELSE LET m == Fit(triples, Reseed(random_state, rng))
          IN  /\ trainPc' = "trained"
              /\ table' = [user_factors |-> m.user_factors,
                           item_factors |-> m.item_factors,
                           user_bias |-> m.user_bias,
                           item_bias |-> m.item_bias,
                           user2idx |-> m.user2idx,
                           item2idx |-> m.item2idx]
              /\ runs' = Append(runs, [table |-> table', shuffles |-> m.shuffles])
              /\ rng' = m.state
  /\ UNCHANGED <<triples, random_state>>
  /\ UNCHANGED otherThanTraining

TrainNext == Train

TrainSpec == TrainInit /\ [][TrainNext]_vars

\* ---------------------------------------------------------------------
\* The context read of rerank_items: the one blocking call of a request.
\* The request issues the read and waits; Redis answers, refuses the
\* connection, or never answers, and the read's timeout ends the wait.
\* ---------------------------------------------------------------------
StoreHealth == {"up", "down", "hung"}

ContextReadInit ==
  /\ ranked \in RankedLists(MaxItems)
  /\ store \in RequestContexts
  /\ health \in StoreHealth
  /\ redisUp = (health = "up")
  /\ top_n \in 2..MaxItems
  /\ floorEnabled = FALSE
  /\ pc = "ready"
  /\ ctx = EmptyContext
  /\ scored = <<>>
  /\ out = <<>>
  /\ attempts = 0
  /\ outcome = "none"
  /\ NoPipeline
  /\ NoMerge /\ NoRank /\ NoLoader /\ NoTraining /\ NoEvents
  /\ NoRecall
  /\ NoAuth
  /\ NoHome
  /\ NoCart
  /\ NoProduct
  /\ NoDashboard

\* get_recent_items / get_recent_categories are called: the request waits
ReadContext ==
  /\ pc = "ready"
  /\ pc' = "reading"
  /\ attempts' = attempts + 1
  /\ UNCHANGED <<ctx, scored, out, outcome, health>>
  /\ UNCHANGED <<universe, user, weights, fails, candidates>>
  /\ UNCHANGED <<ranked, store, redisUp, top_n, floorEnabled>>
  /\ UNCHANGED otherThanRead

\* the read has returned r: the rest of rerank_items runs
Continue(r, how) ==
  /\ outcome' = how
  /\ IF r.raised
     THEN /\ pc' = "failed"
          /\ UNCHANGED <<ctx, scored, out>>
     ELSE LET s == ApplyRules(ranked, r.context, top_n, floorEnabled)
          IN  /\ pc' = "done"
              /\ ctx' = r.context
              /\ scored' = s
              /\ out' = Finalize(s, top_n)
  /\ UNCHANGED <<attempts, health>>
  /\ UNCHANGED <<universe, user, weights, fails, candidates>>
  /\ UNCHANGED <<ranked, store, redisUp, top_n, floorEnabled>>
  /\ UNCHANGED otherThanRead

\* Redis answers with the user's keys
ContextAnswered ==
  /\ pc = "reading" /\ health = "up"
  /\ Continue(LoadContext(store, TRUE), "answered")

\* Redis cannot be reached: the connection error
ContextError ==
  /\ pc = "reading" /\ health = "down"
  /\ Continue(LoadContext(store, FALSE), "error")

\* the read's timeout expires before an answer: empty context
ContextTimeout ==
  /\ pc = "reading"
  /\ Continue([raised |-> FALSE, context |-> EmptyContext], "timeout")

ContextReadNext ==
  ReadContext \/ ContextAnswered \/ ContextError \/ ContextTimeout

ContextReadSpec == ContextReadInit /\ [][ContextReadNext]_vars

\* a ContextTimeout step, told by the two variables that identify it
TimerFires == pc = "reading" /\ pc' = "done" /\ outcome' = "timeout"

\* The request runs on (it is not suspended for ever before its read), and
\* the timer of a pending read fires.
ContextReadFairSpec ==
  /\ ContextReadSpec
  /\ WF_vars(ReadContext)
  /\ WF_<<pc, outcome>>(TimerFires)

\* ---------------------------------------------------------------------
\* Event ingestion: POST /api/event for one user.  The handler looks the
\* item's category up, writes the Redis context, answers 200 and leaves
\* the INSERT into interaction_logs to a background task.  Requests of
\* the user are handled one after the other; their background tasks run
\* beside the later requests and beside each other.
\* ---------------------------------------------------------------------
\* an item with a category and an item whose main_category is null
EventAsins == {1, 5}

\* (variant: RPUSH, the list trimmed to its last entries)
PushRecent_Append(list, asin) ==
  LET pushed == list \o <<asin>>
      drop == IF Len(pushed) > RecentItemsLimit THEN Len(pushed) - RecentItemsLimit ELSE 0
  IN  SubSeq(pushed, drop + 1, Len(pushed))

\* LPUSH asin, LTRIM 0 .. limit-1: newest first, at most the limit
PushRecent(list, asin) ==
  LET pushed == <<asin>> \o list
  IN  SubSeq(pushed, 1, Min(Len(pushed), RecentItemsLimit))

\* HINCRBY category 1; an item whose category is not known counts nowhere
IncrementCategory(hash, category) ==
  IF category = NoCategory
  THEN hash
  ELSE [c \in DOMAIN hash \cup {category} |->
          IF c = category
          THEN (IF c \in DOMAIN hash THEN hash[c] ELSE 0) + 1
          ELSE hash[c]]

\* update_realtime_context
UpdatedContext(r, e, now) ==
  [recent_items |-> PushRecent(r.recent_items, e.asin),
   recent_categories |-> IncrementCategory(r.recent_categories, e.category),
   last_active |-> now]

\* (variant: one retry more than max_retries)
RetryAllowed_OneMore(tries) == tries <= MaxRetries + 1

\* after the INSERT has failed `tries` times: retried max_retries times
RetryAllowed(tries) == tries <= MaxRetries

\* a background task: its state and, while it has not succeeded, the
\* number of INSERTs that failed
NewTask == [state |-> "pending", tries |-> 0]

Finished == [state |-> "done", tries |-> 0]

\* a line of the log: its level, and the background task it comes from
\* (NoTask: the request handler)
NoTask == 0

LogLine(k, level) == [task |-> k, level |-> level]

EventInit ==
  /\ events = 0
  /\ event = NoEvent
  /\ eventPc = "waiting"
  /\ redis = NoRedis
  /\ contextWrite = "none"
  /\ responses = <<>>
  /\ tasks = <<>>
  /\ interaction_logs = {}
  /\ logLines = {}
  /\ NoRequest
  /\ NoMerge /\ NoRank /\ NoLoader /\ NoTraining /\ NoRead
  /\ NoRecall
  /\ NoAuth
  /\ NoHome
  /\ NoCart
  /\ NoProduct
  /\ NoDashboard

\* the request arrives; get_item_category: the category, None when the
\* query fails
ReceiveEvent ==
  /\ eventPc \in {"waiting", "responded"}
  /\ events < MaxEvents
  /\ events' = events + 1
  /\ \E asin \in EventAsins, dbOk \in BOOLEAN :
       event' = [asin |-> asin,
                 category |-> IF dbOk THEN Catalog[asin].category ELSE NoCategory]
  /\ eventPc' = "received"
  /\ contextWrite' = "none"
  /\ UNCHANGED <<redis, responses, tasks, interaction_logs, logLines>>
  /\ UNCHANGED otherThanEvents

\* the Redis write: the three keys, or a warning when Redis fails
UpdateContext ==
  /\ eventPc = "received"
  /\ eventPc' = "updated"
  /\ \E redisOk \in BOOLEAN :
       IF redisOk
       THEN /\ redis' = UpdatedContext(redis, event, events)
            /\ contextWrite' = "written"
            /\ UNCHANGED logLines
       ELSE /\ logLines' = logLines \cup {LogLine(NoTask, "warning")}
            /\ contextWrite' = "failed"
            /\ UNCHANGED redis
  /\ UNCHANGED <<events, event, responses, tasks, interaction_logs>>
  /\ UNCHANGED otherThanEvents

\* (variant: the response is given as soon as the request is received)
Respond_BeforeContext ==
  /\ eventPc \in {"received", "updated"}
  /\ eventPc' = "responded"
  /\ responses' = Append(responses, 200)
  /\ tasks' = Append(tasks, NewTask)
  /\ UNCHANGED <<events, event, redis, contextWrite, interaction_logs, logLines>>
  /\ UNCHANGED otherThanEvents

\* 200 OK; log_interaction_to_postgres is handed to the background tasks
Respond ==
  /\ eventPc = "updated"
  /\ eventPc' = "responded"
  /\ responses' = Append(responses, 200)
  /\ tasks' = Append(tasks, NewTask)
  /\ UNCHANGED <<events, event, redis, contextWrite, interaction_logs, logLines>>
  /\ UNCHANGED otherThanEvents

\* log_interaction of the k-th event: one INSERT; when it fails it is
\* tried again, until the retries are used up and the error is logged
InsertAttempt(k) ==
  /\ k \in 1..Len(tasks)
  /\ tasks[k].state = "pending"
  /\ LET tries == tasks[k].tries + 1
     IN  \E pgOk \in BOOLEAN :
           IF pgOk
           THEN /\ interaction_logs' = interaction_logs \cup {k}
                /\ tasks' = [tasks EXCEPT ![k] = Finished]
                /\ UNCHANGED logLines
           ELSE IF RetryAllowed(tries)
           THEN /\ tasks' = [tasks EXCEPT ![k] = [state |-> "pending", tries |-> tries]]
                /\ UNCHANGED <<interaction_logs, logLines>>
           ELSE /\ tasks' = [tasks EXCEPT ![k] = [state |-> "failed", tries |-> tries]]
                /\ logLines' = logLines \cup {LogLine(k, "error")}
                /\ UNCHANGED interaction_logs
  /\ UNCHANGED <<events, event, eventPc, redis, contextWrite, responses>>
  /\ UNCHANGED otherThanEvents

\* the TTL of the user's keys runs out
Expire ==
  /\ redis # NoRedis
  /\ redis' = NoRedis
  /\ UNCHANGED <<events, event, eventPc, contextWrite, responses, tasks>>
  /\ UNCHANGED <<interaction_logs, logLines>>
  /\ UNCHANGED otherThanEvents

EventNext ==
  \/ ReceiveEvent
  \/ UpdateContext
  \/ Respond
  \/ \E k \in 1..MaxEvents : InsertAttempt(k)
  \/ Expire

EventSpec == EventInit /\ [][EventNext]_vars

\* The handler runs on once a request is received, and each background
\* task is run.
EventFairSpec ==
  /\ EventSpec
  /\ WF_vars(UpdateContext)
  /\ WF_vars(Respond)
  /\ \A k \in 1..MaxEvents : WF_vars(InsertAttempt(k))

\* ---------------------------------------------------------------------
\* AuthProvider (frontend): user, loading and the token in localStorage
\* ---------------------------------------------------------------------

MaxCalls == 3

\* null: no user, no stored token
Nobody == 0

\* the accounts of the people using the browser; the token of account a
\* is written a
Accounts == {1, 2}

\* an API call awaiting its response: the function that made it, the
\* account it is about and the token the request carried
Call(op, who, token) ==
  [id |-> issued + 1, op |-> op, who |-> who, sent |-> token]

AuthInit ==
  /\ mounted = FALSE
  /\ authUser = Nobody
  /\ authLoading = TRUE
  /\ access_token \in {Nobody} \cup Accounts
  /\ storedUser = access_token
  /\ route = "/"
  /\ inflight = {}
  /\ issued = 0
  /\ NoRequest
  /\ NoMerge /\ NoRank /\ NoLoader /\ NoTraining /\ NoRead /\ NoEvents
  /\ NoRecall
  /\ NoHome
  /\ NoCart
  /\ NoProduct
  /\ NoDashboard

\* useEffect on mount: loadUser up to its await
LoadUser ==
  /\ ~mounted
  /\ mounted' = TRUE
  /\ IF access_token = Nobody
     THEN /\ authLoading' = FALSE
          /\ UNCHANGED <<inflight, issued>>
     ELSE /\ inflight' = inflight \cup {Call("loadUser", access_token, access_token)}
          /\ issued' = issued + 1
          /\ UNCHANGED authLoading
  /\ UNCHANGED <<authUser, access_token, storedUser, route>>
  /\ UNCHANGED otherThanAuth

\* login(username, password) up to its await
Login(a) ==
  /\ mounted
  /\ issued < MaxCalls
  /\ inflight' = inflight \cup {Call("login", a, Nobody)}
  /\ issued' = issued + 1
  /\ UNCHANGED <<mounted, authUser, authLoading, access_token, storedUser, route>>
  /\ UNCHANGED otherThanAuth

\* register(username, password, phone_number) up to its await
Register(a) ==
  /\ mounted
  /\ issued < MaxCalls
  /\ inflight' = inflight \cup {Call("register", a, Nobody)}
  /\ issued' = issued + 1
  /\ UNCHANGED <<mounted, authUser, authLoading, access_token, storedUser, route>>
  /\ UNCHANGED otherThanAuth

\* what logout() does to the state
LoggedOut ==
  /\ access_token' = Nobody
  /\ storedUser' = Nobody
  /\ authUser' = Nobody
  /\ route' = "/login"

Logout ==
  /\ mounted
  /\ LoggedOut
  /\ UNCHANGED <<mounted, authLoading, inflight, issued>>
  /\ UNCHANGED otherThanAuth

\* refreshUser() up to its await; the request carries the stored token
RefreshUser ==
  /\ mounted
  /\ issued < MaxCalls
  /\ inflight' = inflight \cup {Call("refreshUser", access_token, access_token)}
  /\ issued' = issued + 1
  /\ UNCHANGED <<mounted, authUser, authLoading, access_token, storedUser, route>>
  /\ UNCHANGED otherThanAuth

\* the API call resolves and the function that awaited it runs on;
\* getCurrentUser resolves only for a request that carried a token
Resolved(c) ==
  /\ c \in inflight
  /\ inflight' = inflight \ {c}
  /\ IF c.op \in {"login", "register"}
     THEN /\ access_token' = c.who
          /\ storedUser' = c.who
          /\ authUser' = c.who
          /\ route' = "/"
          /\ UNCHANGED authLoading
     ELSE IF c.op = "loadUser"
          THEN /\ c.sent # Nobody
               /\ authUser' = c.who
               /\ authLoading' = FALSE
               /\ UNCHANGED <<access_token, storedUser, route>>
          ELSE /\ c.sent # Nobody
               /\ authUser' = c.who
               /\ storedUser' = c.who
               /\ UNCHANGED <<authLoading, access_token, route>>
  /\ UNCHANGED <<mounted, issued>>
  /\ UNCHANGED otherThanAuth

\* the API call rejects and the catch block of the function runs
Rejected(c) ==
  /\ c \in inflight
  /\ inflight' = inflight \ {c}
  /\ IF c.op \in {"login", "register"}
     THEN UNCHANGED <<authUser, authLoading, access_token, storedUser, route>>
     ELSE IF c.op = "loadUser"
          THEN /\ access_token' = Nobody
               /\ storedUser' = Nobody
               /\ authLoading' = FALSE
               /\ UNCHANGED <<authUser, route>>
          ELSE /\ LoggedOut
               /\ UNCHANGED authLoading
  /\ UNCHANGED <<mounted, issued>>
  /\ UNCHANGED otherThanAuth

AuthNext ==
  \/ LoadUser
  \/ \E a \in Accounts : Login(a)
  \/ \E a \in Accounts : Register(a)
  \/ Logout
  \/ RefreshUser
  \/ \E c \in inflight : Resolved(c)
  \/ \E c \in inflight : Rejected(c)

AuthSpec == AuthInit /\ [][AuthNext]_vars

\* ---------------------------------------------------------------------
\* Home page (frontend): the effect on [user], loadData and loadMetrics
\* ---------------------------------------------------------------------

MaxLoads == 3

\* what the recommendation API answers: a list for the user of the
\* request, an empty list, or a body without recommendations
Answers == {"list", "empty", "missing"}

\* the formatted recommendations of a response for a user
FormattedRecs(who, answer) ==
  IF answer = "list" THEN <<[id |-> 1, for |-> who]>> ELSE <<>>

HomeInit ==
  /\ homeUser \in {Nobody} \cup Accounts
  /\ recommendations = <<>>
  /\ homeLoading = TRUE
  /\ homeError = "null"
  /\ metrics = "null"
  /\ metricsLoading = TRUE
  /\ pending = {}
  /\ sent = 0
  /\ NoRequest
  /\ NoMerge /\ NoRank /\ NoLoader /\ NoTraining /\ NoRead /\ NoEvents
  /\ NoRecall
  /\ NoAuth
  /\ NoCart
  /\ NoProduct
  /\ NoDashboard

\* the effect runs: on mount, and again whenever user has changed;
\* loadData and loadMetrics each run up to their await
Effect(u) ==
  /\ sent < MaxLoads
  /\ IF sent = 0 THEN u = homeUser ELSE u # homeUser
  /\ homeUser' = u
  /\ sent' = sent + 1
  /\ homeLoading' = TRUE
  /\ metricsLoading' = TRUE
  /\ pending' = pending \cup
       {[id |-> sent + 1, op |-> "recommendations", who |-> u],
        [id |-> sent + 1, op |-> "metrics", who |-> u]}
  /\ UNCHANGED <<recommendations, homeError, metrics>>
  /\ UNCHANGED otherThanHome

\* api.getRecommendations resolves and loadData runs on
RecommendationsResolved(c, answer) ==
  /\ c \in pending
  /\ c.op = "recommendations"
  /\ pending' = pending \ {c}
  /\ recommendations' = FormattedRecs(c.who, answer)
  /\ homeError' =
       IF answer = "list" THEN "null"
       ELSE IF answer = "empty" THEN "No recommendations available"
       ELSE "No recommendations data received"
  /\ homeLoading' = FALSE
  /\ UNCHANGED <<homeUser, metrics, metricsLoading, sent>>
  /\ UNCHANGED otherThanHome

\* api.getRecommendations rejects and the inner catch block runs
RecommendationsRejected(c) ==
  /\ c \in pending
  /\ c.op = "recommendations"
  /\ pending' = pending \ {c}
  /\ recommendations' = <<>>
  /\ homeError' = "Failed to load recommendations"
  /\ homeLoading' = FALSE
  /\ UNCHANGED <<homeUser, metrics, metricsLoading, sent>>
  /\ UNCHANGED otherThanHome

\* api.getModelMetrics resolves or rejects and loadMetrics runs on
MetricsSettled(c, success) ==
  /\ c \in pending
  /\ c.op = "metrics"
  /\ pending' = pending \ {c}
  /\ metrics' = IF success THEN "data" ELSE metrics
  /\ metricsLoading' = FALSE
  /\ UNCHANGED <<homeUser, recommendations, homeLoading, homeError, sent>>
  /\ UNCHANGED otherThanHome

HomeNext ==
  \/ \E u \in {Nobody} \cup Accounts : Effect(u)
  \/ \E c \in pending, answer \in Answers : RecommendationsResolved(c, answer)
  \/ \E c \in pending : RecommendationsRejected(c)
  \/ \E c \in pending, success \in BOOLEAN : MetricsSettled(c, success)

HomeSpec == HomeInit /\ [][HomeNext]_vars

\* ---------------------------------------------------------------------
\* Cart page (frontend): handleUpdateQuantity, handleRemove and updating
\* ---------------------------------------------------------------------

MaxOps == 3

MaxQuantity == 2

Asins == {"A", "B"}

\* a call of the cart context: the handler that made it, the quantity the
\* handler was asked for (0 from the remove button, which asks for none)
\* and the function called with its arguments
CartCall(handler, asin, newQuantity, fn) ==
  [id |-> started + 1, handler |-> handler, asin |-> asin,
   newQuantity |-> newQuantity, fn |-> fn]

\* disabled={updating === item.asin}, on the buttons of an item shown
ButtonsEnabled(asin) == asin \in DOMAIN cart /\ updating # asin

CartInit ==
  /\ cart \in [Asins -> 1..MaxQuantity]
  /\ updating = "null"
  /\ operations = {}
  /\ cartCalls = {}
  /\ started = 0
  /\ NoRequest
  /\ NoMerge /\ NoRank /\ NoLoader /\ NoTraining /\ NoRead /\ NoEvents
  /\ NoRecall
  /\ NoAuth
  /\ NoHome
  /\ NoProduct
  /\ NoDashboard

\* the call made, up to its await
StartCall(call) ==
  /\ updating' = call.asin
  /\ operations' = operations \cup {call}
  /\ cartCalls' = cartCalls \cup {call}
  /\ started' = started + 1
  /\ UNCHANGED cart
  /\ UNCHANGED otherThanCart

\* (variant: every new quantity is passed on to updateCartItem)
HandleUpdateQuantity_NoRemove(asin, newQuantity) ==
  /\ started < MaxOps
  /\ ButtonsEnabled(asin)
  /\ StartCall(CartCall("handleUpdateQuantity", asin, newQuantity, "updateCartItem"))

\* handleUpdateQuantity(asin, newQuantity), up to its await
HandleUpdateQuantity(asin, newQuantity) ==
  /\ started < MaxOps
  /\ ButtonsEnabled(asin)
  /\ IF newQuantity < 1
     THEN StartCall(CartCall("handleUpdateQuantity", asin, newQuantity, "removeFromCart"))
     ELSE StartCall(CartCall("handleUpdateQuantity", asin, newQuantity, "updateCartItem"))

\* the minus and plus buttons of an item
ClickMinus(asin) ==
  /\ asin \in DOMAIN cart
  /\ HandleUpdateQuantity(asin, cart[asin] - 1)

ClickPlus(asin) ==
  /\ asin \in DOMAIN cart
  /\ HandleUpdateQuantity(asin, cart[asin] + 1)

\* handleRemove(asin) from the remove button, up to its await
HandleRemove(asin) ==
  /\ started < MaxOps
  /\ ButtonsEnabled(asin)
  /\ StartCall(CartCall("handleRemove", asin, 0, "removeFromCart"))

\* the call resolves (the cart then shows its effect) or rejects, and the
\* finally block runs
Settled(o, ok) ==
  /\ o \in operations
  /\ operations' = operations \ {o}
  /\ updating' = "null"
  /\ cart' =
       IF ~ok \/ o.asin \notin DOMAIN cart THEN cart
       ELSE IF o.fn = "removeFromCart"
            THEN [a \in DOMAIN cart \ {o.asin} |-> cart[a]]
            ELSE [cart EXCEPT ![o.asin] = o.newQuantity]
  /\ UNCHANGED <<cartCalls, started>>
  /\ UNCHANGED otherThanCart

CartNext ==
  \/ \E asin \in Asins : ClickMinus(asin)
  \/ \E asin \in Asins : ClickPlus(asin)
  \/ \E asin \in Asins : HandleRemove(asin)
  \/ \E o \in operations, ok \in BOOLEAN : Settled(o, ok)

CartSpec == CartInit /\ [][CartNext]_vars

\* ---------------------------------------------------------------------
\* Product detail page (frontend): handleAddToCart and handleClick
\* ---------------------------------------------------------------------

MaxPresses == 3

ProductInit ==
  /\ productUser \in {Nobody} \cup Accounts
  /\ addingToCart = FALSE
  /\ pressed = <<>>
  /\ pushes = {}
  /\ addToCartCalls = <<>>
  /\ logged = {}
  /\ awaitingLog = {}
  /\ NoRequest
  /\ NoMerge /\ NoRank /\ NoLoader /\ NoTraining /\ NoRead /\ NoEvents
  /\ NoRecall
  /\ NoAuth
  /\ NoHome
  /\ NoCart
  /\ NoDashboard

\* the visitor logs in or out: the page is rendered with the new user
UserChanges(u) ==
  /\ u # productUser
  /\ productUser' = u
  /\ UNCHANGED <<addingToCart, pressed, pushes, addToCartCalls, logged, awaitingLog>>
  /\ UNCHANGED otherThanProduct

\* (variant: the event is logged as soon as the button is pressed)
HandleAddToCart_LogFirst ==
  /\ Len(pressed) < MaxPresses
  /\ ~addingToCart
  /\ pressed' = Append(pressed, productUser)
  /\ IF productUser = Nobody
     THEN /\ pushes' = pushes \cup {[id |-> Len(pressed) + 1, route |-> "/login"]}
          /\ UNCHANGED <<addingToCart, addToCartCalls, logged>>
     ELSE /\ addingToCart' = TRUE
          /\ addToCartCalls' = addToCartCalls @@ ((Len(pressed) + 1) :> "pending")
          /\ logged' = logged \cup
               {[id |-> Len(pressed) + 1, event_type |-> "add_to_cart",
                 user_id |-> productUser]}
          /\ UNCHANGED pushes
  /\ UNCHANGED <<productUser, awaitingLog>>
  /\ UNCHANGED otherThanProduct

\* handleAddToCart, up to its return or its first await; the button is
\* disabled while addingToCart
HandleAddToCart ==
  /\ Len(pressed) < MaxPresses
  /\ ~addingToCart
  /\ pressed' = Append(pressed, productUser)
  /\ IF productUser = Nobody
     THEN /\ pushes' = pushes \cup {[id |-> Len(pressed) + 1, route |-> "/login"]}
          /\ UNCHANGED <<addingToCart, addToCartCalls>>
     ELSE /\ addingToCart' = TRUE
          /\ addToCartCalls' = addToCartCalls @@ ((Len(pressed) + 1) :> "pending")
          /\ UNCHANGED pushes
  /\ UNCHANGED <<productUser, logged, awaitingLog>>
  /\ UNCHANGED otherThanProduct

\* addToCart resolves: the handler, with the user it was started with,
\* calls api.logEvent and awaits it
AddToCartResolved(k) ==
  /\ k \in DOMAIN addToCartCalls
  /\ addToCartCalls[k] = "pending"
  /\ addToCartCalls' = [addToCartCalls EXCEPT ![k] = "resolved"]
  /\ IF pressed[k] # Nobody
     THEN /\ logged' = logged \cup
               {[id |-> k, event_type |-> "add_to_cart", user_id |-> pressed[k]]}
          /\ awaitingLog' = awaitingLog \cup {k}
          /\ UNCHANGED addingToCart
     ELSE /\ addingToCart' = FALSE
          /\ UNCHANGED <<logged, awaitingLog>>
  /\ UNCHANGED <<productUser, pressed, pushes>>
  /\ UNCHANGED otherThanProduct

\* addToCart rejects: the outer catch and the finally block run
AddToCartRejected(k) ==
  /\ k \in DOMAIN addToCartCalls
  /\ addToCartCalls[k] = "pending"
  /\ addToCartCalls' = [addToCartCalls EXCEPT ![k] = "rejected"]
  /\ addingToCart' = FALSE
  /\ UNCHANGED <<productUser, pressed, pushes, logged, awaitingLog>>
  /\ UNCHANGED otherThanProduct

\* api.logEvent resolves or rejects (the inner catch); the finally block runs
LogEventSettled(k) ==
  /\ k \in awaitingLog
  /\ awaitingLog' = awaitingLog \ {k}
  /\ addingToCart' = FALSE
  /\ UNCHANGED <<productUser, pressed, pushes, addToCartCalls, logged>>
  /\ UNCHANGED otherThanProduct

\* handleClick: a click event is logged for a logged-in user
HandleClick ==
  /\ Len(pressed) < MaxPresses
  /\ pressed' = Append(pressed, productUser)
  /\ logged' =
       IF productUser = Nobody THEN logged
       ELSE logged \cup
              {[id |-> Len(pressed) + 1, event_type |-> "click",
                user_id |-> productUser]}
  /\ UNCHANGED <<productUser, addingToCart, pushes, addToCartCalls, awaitingLog>>
  /\ UNCHANGED otherThanProduct

ProductNext ==
  \/ \E u \in {Nobody} \cup Accounts : UserChanges(u)
  \/ HandleAddToCart
  \/ \E k \in DOMAIN addToCartCalls : AddToCartResolved(k)
  \/ \E k \in DOMAIN addToCartCalls : AddToCartRejected(k)
  \/ \E k \in awaitingLog : LogEventSettled(k)
  \/ HandleClick

ProductSpec == ProductInit /\ [][ProductNext]_vars

\* ---------------------------------------------------------------------
\* Dashboard (frontend): fetchData and its eight analytics requests
\* ---------------------------------------------------------------------

\* the requests of the Promise.all, each named by the API function called
AnalyticsRequests ==
  {"getRatingDistribution", "getCategoryDistribution", "getTopItems",
   "getInteractionStats", "getUserActivity", "getItemPopularity",
   "getCleaningStats", "getEmbeddingStats"}

DashboardInit ==
  /\ dashboardLoading = TRUE
  /\ dataStates = [r \in AnalyticsRequests |-> "initial"]
  /\ promises = [r \in AnalyticsRequests |-> "unsent"]
  /\ fetchPc = "unmounted"
  /\ NoRequest
  /\ NoMerge /\ NoRank /\ NoLoader /\ NoTraining /\ NoRead /\ NoEvents
  /\ NoRecall
  /\ NoAuth
  /\ NoHome
  /\ NoCart
  /\ NoProduct

\* the effect on mount: fetchData up to its await
FetchData ==
  /\ fetchPc = "unmounted"
  /\ fetchPc' = "awaiting"
  /\ dashboardLoading' = TRUE
  /\ promises' = [r \in AnalyticsRequests |-> "pending"]
  /\ UNCHANGED dataStates
  /\ UNCHANGED otherThanDashboard

\* a request resolves, with success true ("success") or false ("refused");
\* when it was the last one Promise.all resolves and fetchData sets the
\* state of every response with success true
RequestResolved(r, answer) ==
  /\ promises[r] = "pending"
  /\ promises' = [promises EXCEPT ![r] = answer]
  /\ IF fetchPc = "awaiting" /\
        \A q \in AnalyticsRequests : promises'[q] \in {"success", "refused"}
     THEN /\ dataStates' =
               [q \in AnalyticsRequests |->
                  IF promises'[q] = "success" THEN "set" ELSE dataStates[q]]
          /\ dashboardLoading' = FALSE
          /\ fetchPc' = "done"
     ELSE UNCHANGED <<dataStates, dashboardLoading, fetchPc>>
  /\ UNCHANGED otherThanDashboard

\* (variant: a rejection counts as a response without success, and the
\* other responses are used)
RequestRejected_Settled(r) ==
  /\ promises[r] = "pending"
  /\ promises' = [promises EXCEPT ![r] = "rejected"]
  /\ IF fetchPc = "awaiting" /\
        \A q \in AnalyticsRequests : promises'[q] # "pending"
     THEN /\ dataStates' =
               [q \in AnalyticsRequests |->
                  IF promises'[q] = "success" THEN "set" ELSE dataStates[q]]
          /\ dashboardLoading' = FALSE
          /\ fetchPc' = "done"
     ELSE UNCHANGED <<dataStates, dashboardLoading, fetchPc>>
  /\ UNCHANGED otherThanDashboard

\* a request rejects: Promise.all rejects with the first rejection, and
\* the catch and finally blocks of fetchData run; later rejections find
\* fetchData finished
RequestRejected(r) ==
  /\ promises[r] = "pending"
  /\ promises' = [promises EXCEPT ![r] = "rejected"]
  /\ IF fetchPc = "awaiting"
     THEN /\ dashboardLoading' = FALSE
          /\ fetchPc' = "done"
          /\ UNCHANGED dataStates
     ELSE UNCHANGED <<dataStates, dashboardLoading, fetchPc>>
  /\ UNCHANGED otherThanDashboard

DashboardNext ==
  \/ FetchData
  \/ \E r \in AnalyticsRequests, answer \in {"success", "refused"} :
       RequestResolved(r, answer)
  \/ \E r \in AnalyticsRequests : RequestRejected(r)

DashboardSpec == DashboardInit /\ [][DashboardNext]_vars

\* ---------------------------------------------------------------------
\* Vocabulary of the properties
\* ---------------------------------------------------------------------
Done == pc = "done"

InIds == {ranked[k].item_id : k \in 1..Len(ranked)}

OutIds == {out[k].item_id : k \in 1..Len(out)}

OrigPos(id) == CHOOSE k \in 1..Len(ranked) : ranked[k].item_id = id

OutPos(id) == CHOOSE k \in 1..Len(out) : out[k].item_id = id

RuleCount(item, rule) ==
  Cardinality({i \in 1..Len(item.applied_rules) : item.applied_rules[i].rule = rule})

HasRule(item, rule) == RuleCount(item, rule) > 0

\* the multiplier, in percent, the trail records for a rule (100 if none)
PctOf(item, rule) ==
  IF HasRule(item, rule)
  THEN 100 + (CHOOSE e \in Range(item.applied_rules) : e.rule = rule).pct
  ELSE 100

\* rank_score times the multiplier of each rule named in the trail
\* (in twentieths: 5% = 1/20)
ScoreFromTrail(item) ==
  item.rank_score * (PctOf(item, "intent_boost") \div 5)
    * (PctOf(item, "recent_penalty") \div 5)
    * (PctOf(item, "diversity_penalty") \div 5)
    * (PctOf(item, "popularity_floor") \div 5)

RuleNames == {"intent_boost", "recent_penalty", "diversity_penalty", "popularity_floor"}

PenaltyNames == {"recent_penalty", "diversity_penalty", "popularity_floor"}

SomeRuleApplied == \E k \in 1..Len(out) : out[k].applied_rules # <<>>

\* ---------------------------------------------------------------------
\* C1
\* ---------------------------------------------------------------------
\* C1 (as stated): the set of item ids that comes out of re-ranking is
\* exactly the set of item ids that went in.
C1_SameIdSet == Done => OutIds = InIds

\* C1 (amended): no rule removes, adds or duplicates an item -- the scored
\* list holds the input items one for one -- and the returned list holds
\* min(top_n, n) distinct input items, so it is the whole input set exactly
\* when the input has at most top_n items.
C1_RulesKeepMembership ==
  Done =>
    /\ Len(scored) = Len(ranked)
    /\ \A k \in 1..Len(scored) : scored[k].item_id = ranked[k].item_id
    /\ OutIds \subseteq InIds
    /\ Cardinality(OutIds) = Len(out)
    /\ Len(out) = Min(top_n, Len(ranked))
    /\ (Len(ranked) <= top_n => OutIds = InIds)

\* a request whose input is longer than top_n and where rules were applied
C1_Witness == Done /\ Len(ranked) > top_n /\ SomeRuleApplied

\* ---------------------------------------------------------------------
\* C2
\* ---------------------------------------------------------------------
NoContextData == ~redisUp \/ store = EmptyContext

\* C2 (as stated): with the Context Store unreachable or empty the output
\* is the ranking-only order with an empty applied_rules trail on every item.
C2_RankingOnlyOutput ==
  (pc # "ready" /\ NoContextData) =>
    /\ Done
    /\ \A k \in 1..Len(out) :
         /\ out[k].item_id = ranked[k].item_id
         /\ out[k].applied_rules = <<>>

\* the top-N window of the plain ranking holds no over-represented category
NoDiversityTrigger == OverRepresented(TopN(ranked, top_n)) = {}

\* C2 (amended): with the Context Store unreachable or empty the call
\* completes with min(top_n, n) items, no item carries intent_boost or
\* recent_penalty, and the context-independent rules (diversity penalty,
\* popularity floor) still apply: the output is the ranking-only order with
\* empty trails whenever neither of those two triggers.
C2_ContextRulesSkipped ==
  (pc # "ready" /\ NoContextData) =>
    /\ Done
    /\ Len(out) = Min(top_n, Len(ranked))
    /\ ctx = EmptyContext
    /\ \A k \in 1..Len(scored) :
         /\ ~HasRule(scored[k], "intent_boost")
         /\ ~HasRule(scored[k], "recent_penalty")
    /\ (~floorEnabled /\ NoDiversityTrigger) =>
         \A k \in 1..Len(out) :
           /\ out[k].item_id = ranked[k].item_id
           /\ out[k].applied_rules = <<>>
           /\ out[k].adjusted_score = out[k].rank_score * Unit * Unit * Unit * Unit

\* Redis is down while it holds recent items and categories of ranked items
C2_Witness ==
  /\ Done /\ ~redisUp /\ Len(out) > 0
  /\ \E k \in 1..Len(ranked) :
       /\ ranked[k].item_id \in Range(store.recent_items)
       /\ ranked[k].category \in DOMAIN store.recent_categories

\* ---------------------------------------------------------------------
\* C3
\* ---------------------------------------------------------------------
\* at most one recall source fails (the context read may fail as well)
OneSourceFails == Cardinality(fails) <= 1

\* what the recall sources that did not fail find
FoundBy(source) ==
  IF source \in fails THEN {}
  ELSE IF source = "mf" THEN CollaborativeRecall(user, universe)
  ELSE IF source = "popularity" THEN PopularityRecall(universe)
  ELSE ContentRecall(user, universe)

ColdStart ==
  /\ ~user.inFactorTable /\ ~user.hasReferences
  /\ NoContextData
  /\ fails = {}

\* the n most popular items, most popular first
PopularityTopN(items, n) ==
  LET Place(i) == 1 + Cardinality({j \in items : Popularity[j] > Popularity[i]})
  IN  [k \in 1..Min(n, Cardinality(items)) |->
         CHOOSE i \in items : Place(i) = k]

\* the ranking model weighs the popularity feature only
PopularityOnly ==
  /\ weights.popularity_score > 0
  /\ weights.mf_score = 0 /\ weights.rating_score = 0 /\ weights.content_score = 0

FoundIds == UNION {Range(sourceLists[source]) : source \in Sources}

\* C11: the merged candidates are the union of the three source id sets
\* with each id present exactly once, whichever of the six orders the
\* sources are merged in, and merging the result with the same sources
\* again leaves it unchanged.
C11_MergeIdempotentOrderIndependent ==
  /\ mergePc \in {"merged", "remerged"} =>
       /\ Range(merged.items) = FoundIds
       /\ Injective(merged.items)
       /\ Len(merged.items) = Cardinality(FoundIds)
       /\ \A p \in Orders :
            Range(MergeLists([k \in 1..3 |-> sourceLists[p[k]]])) = Range(merged.items)
       /\ Merge(Range(sourceLists["mf"]), Range(sourceLists["popularity"]), Range(sourceLists["content"]))
            = Range(merged.items)
  /\ mergePc = "remerged" => remerged = merged.items

\* sources that overlap pairwise, merged content first and merged again
C11_Witness ==
  /\ mergePc = "remerged"
  /\ merged.order[1] = "content"
  /\ Range(sourceLists["mf"]) \cap Range(sourceLists["popularity"]) # {}
  /\ Range(sourceLists["popularity"]) \cap Range(sourceLists["content"]) # {}
  /\ sourceLists["mf"] # sourceLists["popularity"]
  /\ Len(merged.items) = 3

C13_RankingPure ==
  /\ \A r \in 1..Len(rankings) :
       LET list == rankings[r]
       IN  /\ Len(list) = Len(supplied)
           /\ {list[k].item_id : k \in 1..Len(list)} = Range(supplied)
           /\ \A k \in 1..Len(list) : list[k].rank_position = k
           /\ \A k \in 1..(Len(list) - 1) :
                \/ list[k].rank_score > list[k + 1].rank_score
                \/ /\ list[k].rank_score = list[k + 1].rank_score
                   /\ list[k].item_id < list[k + 1].item_id
  /\ Len(rankings) = 2 => rankings[1] = rankings[2]

\* two candidates of equal score are supplied with the larger id first in
\* one run and the smaller id first in the other
C13_Witness ==
  /\ Len(rankings) = 2
  /\ \E k \in 1..(Len(supplied) - 1) :
       LET list == rankings[2]
           PosIn(id) == CHOOSE j \in 1..Len(supplied) : supplied[j] = id
       IN  /\ list[k].rank_score = list[k + 1].rank_score
           /\ PosIn(list[k].item_id) > PosIn(list[k + 1].item_id)

\* ---------------------------------------------------------------------
\* C14
\* ---------------------------------------------------------------------
\* every required file is there and both factor matrices have as many rows
\* as their id mapping has entries
ArtifactsOk == files = RequiredFiles /\ Consistent(shape)

BijectionOntoRows(mapping, ids, rows) ==
  /\ DOMAIN mapping = ids
  /\ \A a, b \in ids : mapping[a] = mapping[b] => a = b
  /\ {mapping[a] : a \in ids} = 0..(rows - 1)

\* C16: in a trained factor table user_factors has exactly
\* len(user_id_mapping) rows, item_factors exactly len(item_id_mapping)
\* rows, and each id mapping is a bijection between the external ids of
\* the training data and the row indices 0..rows-1.
C16_FactorTableShape ==
  trainPc = "trained" =>
    /\ Len(table.user_factors) = Cardinality(DOMAIN table.user2idx)
    /\ Len(table.item_factors) = Cardinality(DOMAIN table.item2idx)
    /\ Len(table.user_bias) = Len(table.user_factors)
    /\ Len(table.item_bias) = Len(table.item_factors)
    /\ BijectionOntoRows(table.user2idx,
                         {triples[k].user_id : k \in 1..Len(triples)},
                         Len(table.user_factors))
    /\ BijectionOntoRows(table.item2idx,
                         {triples[k].item_id : k \in 1..Len(triples)},
                         Len(table.item_factors))

\* a trained table for data in which a user and an item come back after
\* another one
C16_Witness ==
  /\ trainPc = "trained"
  /\ Len(triples) = 3
  /\ triples[1].user_id = triples[3].user_id
  /\ triples[1].user_id # triples[2].user_id
  /\ triples[1].item_id = triples[2].item_id
  /\ triples[1].item_id # triples[3].item_id

RatingOutOfScale == \E k \in 1..Len(triples) : triples[k].rating \notin 1..5

TooFewUsers == Cardinality({triples[k].user_id : k \in 1..Len(triples)}) < 2

TooFewItems == Cardinality({triples[k].item_id : k \in 1..Len(triples)}) < 2

\* C22: when a triple has a rating outside the scale, or the data has
\* fewer than 2 distinct users or fewer than 2 distinct items, the
\* training run fails (TrainingDataError) and produces no factor
\* artifacts; otherwise it trains and produces them.
C22_TrainingDataErrorAborts ==
  trainPc # "ready" =>
    IF RatingOutOfScale \/ TooFewUsers \/ TooFewItems
    THEN trainPc = "failed" /\ table = NoTable /\ runs = <<>>
    ELSE trainPc = "trained" /\ table # NoTable /\ runs # <<>>

\* a failed run on data with two users and two items, one of its ratings
\* below the scale
C22_Witness ==
  /\ trainPc = "failed" /\ table = NoTable
  /\ ~TooFewUsers /\ ~TooFewItems
  /\ \E k \in 1..Len(triples) : triples[k].rating = 0
  /\ \A k \in 1..Len(triples) : triples[k].rating <= 5

\* ---------------------------------------------------------------------
\* C23
\* ---------------------------------------------------------------------
RuleOrder ==
  <<"intent_boost", "recent_penalty", "diversity_penalty", "popularity_floor">>

PlaceOf(rule) == CHOOSE i \in 1..Len(RuleOrder) : RuleOrder[i] = rule

\* product of the multipliers of the first i entries of a trail, each in
\* twentieths
RECURSIVE TrailProduct(_, _)
TrailProduct(trail, i) ==
  IF i = 0 THEN 1
  ELSE ((Percent + trail[i].pct) \div 5) * TrailProduct(trail, i - 1)

\* the factor 1, in twentieths, of n rules that did not apply
RECURSIVE UnitPower(_)
UnitPower(n) == IF n = 0 THEN 1 ELSE Unit * UnitPower(n - 1)

C24_MergedOnceAllReturned ==
  /\ merges <= 1
  /\ (merges = 1 <=> pc = "done")
  /\ (merges = 1 => DOMAIN returned = Sources)
  /\ (merges = 0 => candidates = {} /\ ranked = <<>>)
  /\ (pc = "done" =>
        /\ candidates =
             Merge(RecallOf("mf"), RecallOf("popularity"), RecallOf("content"))
        /\ ranked = Rank(user, candidates, weights))

\* a request whose sources returned content first and mf last, each with
\* candidates the others did not find, has been merged
C24_Witness ==
  /\ pc = "done"
  /\ arrival = <<"content", "popularity", "mf">>
  /\ RecallOf("mf") \ RecallOf("popularity") # {}
  /\ RecallOf("popularity") \ RecallOf("mf") # {}
  /\ RecallOf("content") # {}

\* ---------------------------------------------------------------------
\* C25
\* ---------------------------------------------------------------------
\* C25 (as stated): after any interleaving of the mount-time loadUser,
\* login, register, logout and refreshUser, a user that is not null has
\* its access_token in localStorage.
C25_UserHasToken == authUser # Nobody => access_token # Nobody

\* ---------------------------------------------------------------------
\* C26
\* ---------------------------------------------------------------------
\* C26 (as stated): once every request of the home page has been answered,
\* the recommendations displayed are those of the response to the request
\* made for the latest value of user; a slower response to an earlier
\* request never replaces them.
C26_LatestUserDisplayed ==
  pending = {} =>
    \A k \in DOMAIN recommendations : recommendations[k].for = homeUser

\* ---------------------------------------------------------------------
\* C27
\* ---------------------------------------------------------------------
\* C27 (as stated): while an update or remove of an item is in flight, the
\* buttons of that item are disabled, whatever happens to other items in
\* the meantime; so no two operations on one item are in flight together.
C27_DisabledWhileInFlight ==
  /\ \A o \in operations : ~ButtonsEnabled(o.asin)
  /\ \A o1, o2 \in operations : o1.asin = o2.asin => o1 = o2

\* ---------------------------------------------------------------------
\* C28
\* ---------------------------------------------------------------------
\* C28: handleUpdateQuantity never calls updateCartItem with a quantity
\* below 1; asked for a quantity below 1 it calls removeFromCart for that
\* asin, and makes no call of updateCartItem.
C28_NoUpdateBelowOne ==
  \A c \in cartCalls :
    /\ c.fn = "updateCartItem" => c.newQuantity >= 1
    /\ c.handler = "handleUpdateQuantity" /\ c.newQuantity < 1 =>
         /\ c.fn = "removeFromCart"
         /\ \A d \in cartCalls :
              d.id = c.id => d = c

\* the minus button of an item of quantity 1 has been pressed, and the
\* removal it asked for has taken the item out of the cart
C28_Witness ==
  \E c \in cartCalls :
    /\ c.handler = "handleUpdateQuantity"
    /\ c.newQuantity = 0
    /\ c.fn = "removeFromCart"
    /\ c \notin operations
    /\ c.asin \notin DOMAIN cart

\* ---------------------------------------------------------------------
\* C29
\* ---------------------------------------------------------------------
\* the add_to_cart events logged for a press
AddToCartEvents(k) == {e \in logged : e.id = k /\ e.event_type = "add_to_cart"}

\* C29: an add_to_cart event is logged only after the addToCart of the
\* same press has resolved; a press with no logged-in user pushes /login
\* and calls neither addToCart nor logEvent; and when addToCart rejects no
\* add_to_cart event is logged.
C29_LoggedAfterAddToCart ==
  /\ \A e \in logged :
       e.event_type = "add_to_cart" =>
         /\ e.id \in DOMAIN addToCartCalls
         /\ addToCartCalls[e.id] = "resolved"
         /\ e.user_id = pressed[e.id]
  /\ \A k \in DOMAIN pressed :
       pressed[k] = Nobody =>
         /\ k \notin DOMAIN addToCartCalls
         /\ \A e \in logged : e.id # k
  /\ \A p \in pushes : p.route = "/login" /\ pressed[p.id] = Nobody
  /\ \A k \in DOMAIN addToCartCalls :
       /\ addToCartCalls[k] \in {"pending", "rejected"} => AddToCartEvents(k) = {}
       /\ addToCartCalls[k] = "resolved" => AddToCartEvents(k) # {}

\* one press was made logged out and pushed /login, one had its addToCart
\* rejected, and one had it resolved and its event logged
C29_Witness ==
  /\ \E p \in pushes : pressed[p.id] = Nobody
  /\ \E k \in DOMAIN addToCartCalls : addToCartCalls[k] = "rejected"
  /\ \E k \in DOMAIN addToCartCalls :
       addToCartCalls[k] = "resolved" /\ AddToCartEvents(k) # {}

\* ---------------------------------------------------------------------
\* C30
\* ---------------------------------------------------------------------
\* C30: the eight analytics requests are awaited together; once one of
\* them has rejected none of the eight data states is set, whatever the
\* other requests answered, and loading is false. (Without a rejection
\* nothing is set and loading stays true until the last response.)
C30_AllOrNothing ==
  /\ (\E r \in AnalyticsRequests : promises[r] = "rejected") =>
       /\ \A q \in AnalyticsRequests : dataStates[q] = "initial"
       /\ dashboardLoading = FALSE
       /\ fetchPc = "done"
  /\ fetchPc = "awaiting" =>
       /\ \A q \in AnalyticsRequests : dataStates[q] = "initial"
       /\ dashboardLoading = TRUE
  /\ (\A r \in AnalyticsRequests : promises[r] \in {"success", "refused"}) =>
       /\ \A q \in AnalyticsRequests :
            dataStates[q] = "set" <=> promises[q] = "success"
       /\ dashboardLoading = FALSE

\* seven requests have answered with success and one has rejected
C30_Witness ==
  /\ fetchPc = "done"
  /\ promises["getEmbeddingStats"] = "rejected"
  /\ \A r \in AnalyticsRequests \ {"getEmbeddingStats"} : promises[r] = "success"
  /\ dataStates["getRatingDistribution"] = "initial"
  /\ ~dashboardLoading

\* ---------------------------------------------------------------------
\* C5
\* ---------------------------------------------------------------------
RankedCategories ==
  {ranked[k].category : k \in 1..Len(ranked)} \ {NoCategory}

OutCount(c) == Cardinality({k \in 1..Len(out) : out[k].category = c})

Stage2Score(k) ==
  ranked[k].rank_score * (PctOf(scored[k], "intent_boost") \div 5)
    * (PctOf(scored[k], "recent_penalty") \div 5)

\* the k-th ranked item is in the top-N window the diversity rule inspects
InWindow(k) ==
  Cardinality({j \in 1..Len(ranked) :
                 \/ Stage2Score(j) > Stage2Score(k)
                 \/ Stage2Score(j) = Stage2Score(k) /\ j < k}) < top_n

Window == {j \in 1..Len(ranked) : InWindow(j)}

OnlyPenalised(item) ==
  /\ item.applied_rules # <<>>
  /\ \A e \in Range(item.applied_rules) : e.rule \in PenaltyNames

NotPenalised(item) ==
  \A e \in Range(item.applied_rules) : e.rule \notin PenaltyNames

\* C6 (as stated): an item to which only penalising rules were applied
\* never ends at a better final position than its original rank position.
C6_PenalisedNeverRises ==
  Done => \A k \in 1..Len(out) :
            OnlyPenalised(out[k]) => k >= OrigPos(out[k].item_id)

\* C6 (amended): an item to which only penalising rules were applied never
\* ends ahead of an item that was ranked above it and was not penalised:
\* every such item is returned too, and at a better position.
C6_PenalisedNeverOvertakesUnpenalised ==
  Done => \A k \in 1..Len(out) :
            OnlyPenalised(out[k]) =>
              \A j \in 1..Len(scored) :
                (j < OrigPos(out[k].item_id) /\ NotPenalised(scored[j])) =>
                  /\ scored[j].item_id \in OutIds
                  /\ OutPos(scored[j].item_id) < k

\* an only-penalised item is returned that had an unpenalised item above it
C6_Witness ==
  /\ Done
  /\ \E k \in 1..Len(out) :
       /\ OnlyPenalised(out[k])
       /\ \E j \in 1..Len(scored) :
            j < OrigPos(out[k].item_id) /\ NotPenalised(scored[j])

ScoredOf(id) == scored[OrigPos(id)]

\* C9: the output is sorted by adjusted score descending, equal adjusted
\* scores in original rank order, holds the min(top_n, n) best items of the
\* scored list, and its rank_position values are 1, 2, ... in output order.
C9_SortedTruncatedNumbered ==
  Done =>
    /\ Len(out) = Min(top_n, Len(ranked))
    /\ \A k \in 1..Len(out) :
         /\ out[k].rank_position = k
         /\ out[k].item_id \in InIds
         /\ out[k].adjusted_score = ScoredOf(out[k].item_id).adjusted_score
    /\ \A k \in 1..(Len(out) - 1) :
         \/ out[k].adjusted_score > out[k + 1].adjusted_score
         \/ /\ out[k].adjusted_score = out[k + 1].adjusted_score
            /\ OrigPos(out[k].item_id) < OrigPos(out[k + 1].item_id)
    /\ \A j \in 1..Len(scored) :
         scored[j].item_id \notin OutIds =>
           \A k \in 1..Len(out) :
             \/ out[k].adjusted_score > scored[j].adjusted_score
             \/ /\ out[k].adjusted_score = scored[j].adjusted_score
                /\ OrigPos(out[k].item_id) < j

\* the list is truncated and two returned items tie on the adjusted score
C9_Witness ==
  /\ Done /\ Len(ranked) > top_n
  /\ \E k \in 1..(Len(out) - 1) :
       /\ out[k].adjusted_score = out[k + 1].adjusted_score
       /\ out[k].item_id > out[k + 1].item_id

\* ---------------------------------------------------------------------
\* C10
\* ---------------------------------------------------------------------
\* C10: with the popularity floor enabled every item with rating_number
\* below the threshold has its score multiplied by 0.9 and is kept (it is
\* in the scored list, and in the output unless top-N truncation cuts it);
\* an item at or above the threshold is not changed by the rule; with the
\* rule disabled no item is changed by it.
C10_PopularityFloor ==
  Done =>
    /\ Len(scored) = Len(ranked)
    /\ \A k \in 1..Len(scored) :
         LET it == scored[k]
         IN  /\ it.item_id = ranked[k].item_id
             /\ it.adjusted_score = ScoreFromTrail(it)
             /\ (Len(ranked) <= top_n => it.item_id \in OutIds)
             /\ IF floorEnabled /\ ranked[k].rating_number < 5
                THEN /\ RuleCount(it, "popularity_floor") = 1
                     /\ PctOf(it, "popularity_floor") = 90
                     /\ it.applied_rules[Len(it.applied_rules)].rule = "popularity_floor"
                ELSE RuleCount(it, "popularity_floor") = 0

\* the enabled rule meets an item below and an item exactly at the threshold
C10_Witness ==
  /\ Done /\ floorEnabled
  /\ \E k \in 1..Len(out) : out[k].rating_number = 4 /\ HasRule(out[k], "popularity_floor")
  /\ \E k \in 1..Len(out) : out[k].rating_number = 5

\* ---------------------------------------------------------------------
\* C17
\* ---------------------------------------------------------------------
\* what rerank_items returns when it works with the context c
RerankedWith(c) == Finalize(ApplyRules(ranked, c, top_n, floorEnabled), top_n)

\* C17: a request reads the context once; when the read times out or
\* fails the request goes on with the empty context (it is never read a
\* second time and never fails), when Redis answers it goes on with the
\* user's keys; and every request completes, whether Redis answers,
\* refuses the connection or never answers.
C17_SingleReadThenProceed ==
  /\ [](attempts <= 1)
  /\ [](pc # "failed")
  /\ [](Done =>
          /\ attempts = 1
          /\ outcome \in {"timeout", "error"} =>
               ctx = EmptyContext /\ out = RerankedWith(EmptyContext)
          /\ outcome = "answered" => ctx = store /\ out = RerankedWith(store))
  /\ [](health # "up" => outcome # "answered")
  /\ (pc \in {"ready", "reading"}) ~> Done

\* Redis never answers, the user has keys there, and the request has
\* completed on the timeout with a non-empty list
C17_Witness ==
  /\ Done /\ health = "hung" /\ outcome = "timeout" /\ attempts = 1
  /\ store # EmptyContext /\ ctx = EmptyContext
  /\ Len(out) >= 2

\* ---------------------------------------------------------------------
\* C18
\* ---------------------------------------------------------------------
Responded == eventPc = "responded"

\* update_realtime_context has written the keys for the event
Written == contextWrite = "written"

\* the Redis write of the event failed, and its warning is in the log
WriteFailed ==
  contextWrite = "failed" /\ LogLine(NoTask, "warning") \in logLines

\* the handler is working on an event it has not answered yet
Handling == eventPc \in {"received", "updated"}

\* the step is the response to the event being handled
Responds == Len(responses') > Len(responses)

\* every INSERT tried so far belongs to an event already answered
InsertsFollowResponses ==
  /\ Len(tasks) = Len(responses)
  /\ \A k \in interaction_logs : k <= Len(responses)
  /\ Handling => Len(responses) = events - 1
  /\ Responded => Len(responses) = events

\* C18 (as stated): when the response to an event has been returned the
\* Redis context of the event has been written, and INSERTs are only
\* tried for events already answered.
C18_ContextWrittenBeforeResponse ==
  /\ Responded => Written
  /\ InsertsFollowResponses

\* C18 (amended): the Redis write is attempted before the response: when
\* the response has been returned the context has been written or the
\* warning of the failed write has been logged; a write that succeeds puts
\* the asin at the head of recent_items, counts the category and sets
\* last_active; the response leaves the event's background task pending
\* with no INSERT tried, and INSERTs are only tried for events already
\* answered.
C18_ContextWriteAttemptedBeforeResponse ==
  /\ [](Responded => Written \/ WriteFailed)
  /\ [](InsertsFollowResponses)
  /\ [][Written' /\ ~Written =>
          /\ eventPc = "received"
          /\ Head(redis'.recent_items) = event.asin
          /\ redis'.last_active = events
          /\ event.category # NoCategory =>
               /\ event.category \in DOMAIN redis'.recent_categories
               /\ redis'.recent_categories[event.category] >= 1
               /\ event.category \in DOMAIN redis.recent_categories =>
                    redis'.recent_categories[event.category] =
                      redis.recent_categories[event.category] + 1]_vars
  /\ [][Responds =>
          /\ eventPc = "updated"
          /\ responses' = Append(responses, 200)
          /\ tasks'[events] = NewTask
          /\ events \notin interaction_logs']_vars

\* the second event is answered after its context was written, its INSERT
\* not tried yet, while the first event's INSERT has already failed once
C18_Witness ==
  /\ Responded /\ Written /\ events = 2
  /\ redis.recent_items = <<event.asin, 1>> /\ event.asin = 5
  /\ redis.last_active = 2
  /\ tasks[2] = NewTask
  /\ tasks[1].state = "pending" /\ tasks[1].tries = 1
  /\ interaction_logs = {}

\* ---------------------------------------------------------------------
\* C19
\* ---------------------------------------------------------------------
\* the background task of the k-th event has ended
Ended(k) == k <= Len(tasks) /\ tasks[k].state # "pending"

\* no request is being handled and no background task is left to run
Quiet == ~Handling /\ \A k \in 1..Len(tasks) : Ended(k)

\* C19: an event whose Redis write failed is answered 200 all the same;
\* a failing INSERT is retried at most max_retries times; when the last
\* retry fails too the error is logged, the row is not inserted and the
\* task has ended (and the error is logged in no other case); an ended
\* task does nothing more; every request is answered and every
\* background task ends; and a response once given is never changed.
C19_FailureHandling ==
  /\ [](\A k \in 1..Len(responses) : responses[k] = 200)
  /\ [](contextWrite = "failed" =>
          /\ WriteFailed
          /\ Responded => Len(responses) = events /\ responses[events] = 200)
  /\ [][contextWrite = "failed" /\ eventPc = "updated" /\ eventPc' # eventPc =>
          Responds /\ responses'[events] = 200]_vars
  /\ [](\A k \in 1..Len(tasks) :
          /\ tasks[k].tries <= 1 + MaxRetries
          /\ tasks[k].state = "pending" => tasks[k].tries <= MaxRetries
          /\ tasks[k].state = "failed" <=> LogLine(k, "error") \in logLines
          /\ tasks[k].state = "failed" =>
               tasks[k].tries = 1 + MaxRetries /\ k \notin interaction_logs
          /\ tasks[k].state = "done" <=> k \in interaction_logs)
  /\ [][\A k \in 1..Len(tasks) : Ended(k) => tasks'[k] = tasks[k]]_vars
  /\ <>[]Quiet
  /\ [][SubSeq(responses', 1, Len(responses)) = responses]_vars

\* the second event's Redis write failed and it was answered 200; the
\* first event's INSERT failed four times (the first try and three
\* retries) and its error is logged
C19_Witness ==
  /\ Responded /\ contextWrite = "failed"
  /\ Len(responses) = 2 /\ responses[2] = 200
  /\ LogLine(NoTask, "warning") \in logLines
  /\ tasks[1].state = "failed" /\ tasks[1].tries = 1 + MaxRetries
  /\ LogLine(1, "error") \in logLines
  /\ 1 \notin interaction_logs

\* ---------------------------------------------------------------------
\* C20
\* ---------------------------------------------------------------------
\* the handler is past the Redis write of the latest event
Recorded == eventPc \in {"updated", "responded"}

\* the step writes the context of the event being handled
WritesContext == Written' /\ ~Written

\* C20 (as stated): recent_items never holds more than the limit, and
\* once the latest event has been recorded its asin is at the head.
C20_LatestEventAtHead ==
  /\ Len(redis.recent_items) <= RecentItemsLimit
  /\ Recorded =>
       redis.recent_items # <<>> /\ Head(redis.recent_items) = event.asin

\* C20 (amended): recent_items never holds more than the limit; a
\* successful context write puts the event's asin at the head and moves
\* the earlier entries back by one in their order, the entry that no
\* longer fits (the oldest) being dropped; the list changes in no other
\* way than by such a write or by the expiry of the keys, which empties
\* it; so the asin of the latest event is at the head when its write
\* succeeded and the keys have not expired since.
C20_RecentItemsNewestFirst ==
  /\ [](Len(redis.recent_items) <= RecentItemsLimit)
  /\ [](Written /\ redis.last_active = events =>
          redis.recent_items # <<>> /\ Head(redis.recent_items) = event.asin)
  /\ [][WritesContext =>
          LET old == redis.recent_items
              new == redis'.recent_items
          IN  /\ Len(new) = Min(Len(old) + 1, RecentItemsLimit)
              /\ new[1] = event.asin
              /\ \A i \in 2..Len(new) : new[i] = old[i - 1]]_vars
  /\ [][redis'.recent_items # redis.recent_items =>
          WritesContext \/ redis' = NoRedis]_vars
  /\ [][contextWrite # "failed" /\ contextWrite' = "failed" => UNCHANGED redis]_vars

\* the list was full of item 1, item 5 has been written and is at the
\* head, and the oldest entry has been dropped
C20_Witness ==
  /\ Recorded /\ Written /\ event.asin = 5
  /\ Len(redis.recent_items) = RecentItemsLimit
  /\ Head(redis.recent_items) = 5
  /\ \A i \in 2..RecentItemsLimit : redis.recent_items[i] = 1
  /\ "Electronics" \in DOMAIN redis.recent_categories
  /\ redis.recent_categories["Electronics"] = RecentItemsLimit
  /\ redis.last_active = events

====
